---- MODULE Spec2Model ----
(***************************************************************************)
(* Sten: LSB image steganography (x3525/sten-gui).  A model of the encode  *)
(* and decode handlers, the refresh handler that keeps the allocation and   *)
(* the character limit, and the file-open handler.                          *)
(*                                                                          *)
(* Text is a sequence of character codes, a bit string a sequence of 0/1,   *)
(* an image a sequence (one entry per pixel) of sequences of band values.   *)
(* Python indices are 0-based; the sequences here are 1-based, so pixel     *)
(* pix is image[pix + 1] and band b of it image[pix + 1][b + 1].            *)
(***************************************************************************)
EXTENDS Integers, Sequences, FiniteSets, TLC

VARIABLES
    DELIMITER,      \* consts.DELIMITER, fixed for the whole run
    Picture,        \* class Picture: pixel, imagedata, filename
    Var_opened,     \* path of the opened picture, "" before the first open
    Globals,        \* class Globals: i_lsb, limit
    scales,         \* the values of the three LSB scales
    encode_text,    \* notebook['encode']
    decode_text,    \* notebook['decode']
    E_prng,         \* the seed entry
    X_ciphers,      \* the selected cipher name
    E_key,          \* the key entry
    brute,          \* config['brute']
    Var_output,     \* path of the last output, "" when there is none
    B_show,         \* state of the Show button
    widgets,        \* event bindings and states of the encode/decode controls
    F_book,         \* the used/left/limit counters shown
    rng,            \* state of the random module's generator
    origin,         \* history: the encode that wrote the opened picture
    last            \* history: what the most recent handler did

vars == <<DELIMITER, Picture, Var_opened, Globals, scales, encode_text,
          decode_text, E_prng, X_ciphers, E_key, brute, Var_output, B_show,
          widgets, F_book, rng, origin, last>>

\* consts.B: bits per band value and per character.
B == 8

\* consts.RGB: the number of LSB scales (red, green, blue).
RGB == 3

-----------------------------------------------------------------------------
(* Strings and bit strings                                                 *)

Min(a, b) == IF a < b THEN a ELSE b

\* Python slice s[a:b] with 0 <= a: clipped to the length of s.
Slice(s, a, b) == SubSeq(s, a + 1, Min(b, Len(s)))

\* str.endswith
EndsWith(s, suffix) ==
    /\ Len(suffix) <= Len(s)
    /\ SubSeq(s, Len(s) - Len(suffix) + 1, Len(s)) = suffix

\* A faulty removesuffix that leaves the text as it is
KeepSuffix(s, suffix) == s

\* str.removesuffix: removes one trailing occurrence
RemoveSuffix(s, suffix) ==
    IF suffix # <<>> /\ EndsWith(s, suffix)
    THEN SubSeq(s, 1, Len(s) - Len(suffix))
    ELSE s

\* "suffix in s"
Contains(s, sub) ==
    \E a \in 0..(Len(s) - Len(sub)) : SubSeq(s, a + 1, a + Len(sub)) = sub

\* format(v, f'0{B}b') for 0 <= v < 2^B: B binary digits, most significant first
FormatTable ==
    [v \in 0..(2 ^ B - 1) |-> [k \in 1..B |-> (v \div (2 ^ (B - k))) % 2]]
Format(v) == FormatTable[v]

\* int(bits, 2)
Int2(bits) ==
    LET F[k \in 0..Len(bits)] == IF k = 0 THEN 0 ELSE 2 * F[k - 1] + bits[k]
    IN  F[Len(bits)]

\* ''.join(format(ord(c), f'0{B}b') for c in message)
RECURSIVE ToBits(_)
ToBits(message) ==
    IF message = <<>> THEN <<>>
    ELSE Format(Head(message)) \o ToBits(Tail(message))

\* string.printable as character codes
Printable == (32..126) \cup (9..13)

\* utils.nonascii: the first character outside string.printable, None (-1)
\* when there is none
nonascii(message) ==
    IF \A k \in 1..Len(message) : message[k] \in Printable THEN -1
    ELSE message[CHOOSE k \in 1..Len(message) :
                    /\ message[k] \notin Printable
                    /\ \A j \in 1..(k - 1) : message[j] \in Printable]

-----------------------------------------------------------------------------
(* The module-level generator of the random library                        *)

\* Modulus and multiplier of the stand-in generator (a Lehmer sequence).
RandomModulus == 65537
RandomMultiplier == 75

\* random.seed(seed): the generator state is a function of the seed alone
RECURSIVE SeedHash(_)
SeedHash(seed) ==
    IF seed = <<>> THEN 1
    ELSE (((SeedHash(SubSeq(seed, 1, Len(seed) - 1)) * RandomMultiplier)
              + seed[Len(seed)]) % (RandomModulus - 1)) + 1

RandomSeed(seed) == SeedHash(seed)

\* one draw: the next generator state
RandomNext(state) == (state * RandomMultiplier) % RandomModulus

\* A faulty loop body that copies x[j] to x[i] without the swap
shuffle_step_copy(s, i) ==
    [x     |-> [s.x EXCEPT ![i + 1] = s.x[(RandomNext(s.state) % (i + 1)) + 1]],
     state |-> RandomNext(s.state)]

\* random.shuffle(x), the Fisher-Yates loop
\*   for i in reversed(range(1, len(x))): j = randbelow(i + 1); swap x[i], x[j]
\* shuffle_step is the loop body at index i; shuffle_run runs the body for
\* i = hi, hi - 1, ..., lo.  s holds the list and the generator state.
shuffle_step(s, i) ==
    LET s1 == RandomNext(s.state)
        j  == s1 % (i + 1)
    IN  [x     |-> [s.x EXCEPT ![i + 1] = s.x[j + 1], ![j + 1] = s.x[i + 1]],
         state |-> s1]

RECURSIVE shuffle_run(_, _, _)
shuffle_run(s, lo, hi) ==
    IF lo > hi \/ Len(s.x) <= 1 THEN s
    ELSE IF lo = hi THEN shuffle_step(s, lo)
    ELSE LET mid == (lo + hi + 1) \div 2
         IN  shuffle_run(shuffle_run(s, mid, hi), lo, mid - 1)

RandomShuffle(x, state) == shuffle_run([x |-> x, state |-> state], 1, Len(x) - 1)

\* list(range(n))
Range(n) == [k \in 1..n |-> k - 1]

\* A faulty variant that shuffles without reseeding
SeededStateKeep(seed, state) == state

\* The generator state the handlers shuffle with: "if seed := E_prng.get():
\* random.seed(seed)" reseeds before every shuffle.
SeededState(seed, state) == RandomSeed(seed)

\* pixels = list(range(Picture.pixel)); if seed: random.seed(seed);
\* random.shuffle(pixels).  Returns the order and the generator state after.
PixelOrder(pixel, seed, state) ==
    IF seed = <<>> THEN [x |-> Range(pixel), state |-> state]
    ELSE RandomShuffle(Range(pixel), SeededState(seed, state))

-----------------------------------------------------------------------------
(* The embedding loop of encode and the extraction loop of decode          *)

\* The k-th element (k = 0, 1, ...) of itertools.product(pixels, i_lsb):
\* pixel-major, the (band, lsb) pairs of i_lsb varying fastest.
\* A faulty length: one pair for every pixel
ProductLenPixels(pixels, i_lsb) == Len(pixels)

ProductLen(pixels, i_lsb) == Len(pixels) * Len(i_lsb)
\* A faulty product that walks the pixels fastest, band-major
ProductPixMinor(pixels, i_lsb, k) == pixels[(k % Len(pixels)) + 1]

ProductPix(pixels, i_lsb, k) == pixels[(k \div Len(i_lsb)) + 1]
ProductPair(pixels, i_lsb, k) == i_lsb[(k % Len(i_lsb)) + 1]

\* A faulty pack that fills a short last chunk up with zeros
PackZero(val, bits, i, lsb) ==
    SubSeq(val, 1, B - lsb) \o Slice(bits, i, i + lsb)
        \o [k \in 1..(lsb - Len(Slice(bits, i, i + lsb))) |-> 0]

\* A faulty pack that shifts the old digits up to make room for the chunk
PackShift(val, bits, i, lsb) ==
    SubSeq(val, Len(Slice(bits, i, i + lsb)) + 1, B) \o Slice(bits, i, i + lsb)

\* pack = val[:B - lsb] + (_ := bits[i:i + lsb]) + val[B - lsb + len(_):]
Pack(val, bits, i, lsb) ==
    LET chunk == Slice(bits, i, i + lsb)
    IN  SubSeq(val, 1, B - lsb) \o chunk
            \o SubSeq(val, B - lsb + Len(chunk) + 1, B)

\* for pix, (band, lsb) in product(pixels, Globals.i_lsb):
\*     if i >= bits_length: break
\*     image[pix][band] = int(pack, 2); i += lsb
\* encode_step is the loop body at the k-th (pixel, band) pair; s holds the
\* pixel copy, the bit cursor i, the number k of pairs written and whether
\* the loop has hit its break.  encode_run runs the body for lo <= k < hi.
encode_step(s, bits, pixels, i_lsb, k) ==
    IF s.i >= Len(bits) THEN [s EXCEPT !.done = TRUE]
    ELSE LET pix  == ProductPix(pixels, i_lsb, k)
             band == ProductPair(pixels, i_lsb, k)[1]
             lsb  == ProductPair(pixels, i_lsb, k)[2]
             val  == Format(s.image[pix + 1][band + 1])
             pack == Pack(val, bits, s.i, lsb)
         IN  [image |-> [s.image EXCEPT ![pix + 1][band + 1] = Int2(pack)],
              i     |-> s.i + lsb,
              k     |-> k + 1,
              done  |-> FALSE]

RECURSIVE encode_run(_, _, _, _, _, _)
encode_run(s, bits, pixels, i_lsb, lo, hi) ==
    IF lo >= hi \/ s.done THEN s
    ELSE IF hi = lo + 1 THEN encode_step(s, bits, pixels, i_lsb, lo)
    ELSE LET mid == (lo + hi) \div 2
         IN  encode_run(encode_run(s, bits, pixels, i_lsb, lo, mid),
                        bits, pixels, i_lsb, mid, hi)

encode_loop(image, bits, pixels, i_lsb) ==
    encode_run([image |-> image, i |-> 0, k |-> 0, done |-> FALSE],
               bits, pixels, i_lsb, 0, ProductLen(pixels, i_lsb))

\* A faulty read of the leading lsb digits, [:lsb]
LowBitsHigh(v, lsb) == SubSeq(Format(v), 1, lsb)

\* format(Picture.imagedata[pix][band], f'0{B}b')[-lsb:]
LowBits(v, lsb) == SubSeq(Format(v), B - lsb + 1, B)

\* A faulty append that never drops the bits it has turned into a character
decode_append_keep(s, bits1, k) ==
    IF Len(bits1) >= B
    THEN [bits    |-> bits1,
          message |-> Append(s.message, Int2(SubSeq(bits1, 1, B))),
          k       |-> k + 1,
          done    |-> FALSE]
    ELSE [bits |-> bits1, message |-> s.message, k |-> k + 1, done |-> FALSE]

\* for pix, (band, lsb) in product(pixels, i_lsb):
\*     if message.endswith(DELIMITER): break
\*     bits += ...[-lsb:]
\*     if len(bits) >= B: message += chr(int(bits[:B], 2)); bits = bits[B:]
\* decode_step is the loop body at the k-th (pixel, band) pair; s holds the
\* bit accumulator, the message, the number k of pairs read and whether the
\* loop has hit its break.  decode_run runs the body for lo <= k < hi.
decode_append(s, bits1, k) ==
    IF Len(bits1) >= B
    THEN [bits    |-> SubSeq(bits1, B + 1, Len(bits1)),
          message |-> Append(s.message, Int2(SubSeq(bits1, 1, B))),
          k       |-> k + 1,
          done    |-> FALSE]
    ELSE [bits |-> bits1, message |-> s.message, k |-> k + 1, done |-> FALSE]

\* A faulty loop body that reads its pair before it tests for the break
decode_step_late(s, imagedata, pixels, i_lsb, delimiter, k) ==
    IF EndsWith(s.message, delimiter)
    THEN [s EXCEPT !.done = TRUE, !.k = k + 1]
    ELSE LET pix  == ProductPix(pixels, i_lsb, k)
             band == ProductPair(pixels, i_lsb, k)[1]
             lsb  == ProductPair(pixels, i_lsb, k)[2]
         IN  decode_append(s, s.bits \o LowBits(imagedata[pix + 1][band + 1],
                                                lsb), k)

decode_step(s, imagedata, pixels, i_lsb, delimiter, k) ==
    IF EndsWith(s.message, delimiter) THEN [s EXCEPT !.done = TRUE]
    ELSE LET pix  == ProductPix(pixels, i_lsb, k)
             band == ProductPair(pixels, i_lsb, k)[1]
             lsb  == ProductPair(pixels, i_lsb, k)[2]
         IN  decode_append(s, s.bits \o LowBits(imagedata[pix + 1][band + 1],
                                                lsb), k)

RECURSIVE decode_run(_, _, _, _, _, _, _)
decode_run(s, imagedata, pixels, i_lsb, delimiter, lo, hi) ==
    IF lo >= hi \/ s.done THEN s
    ELSE IF hi = lo + 1
         THEN decode_step(s, imagedata, pixels, i_lsb, delimiter, lo)
    ELSE LET mid == (lo + hi) \div 2
         IN  decode_run(decode_run(s, imagedata, pixels, i_lsb, delimiter,
                                   lo, mid),
                        imagedata, pixels, i_lsb, delimiter, mid, hi)

decode_loop(imagedata, pixels, i_lsb, delimiter) ==
    decode_run([bits |-> <<>>, message |-> <<>>, k |-> 0, done |-> FALSE],
               imagedata, pixels, i_lsb, delimiter,
               0, ProductLen(pixels, i_lsb))

\* possibilities = [tuple(compress(enumerate(t), t))
\*                  for t in product(range(B + 1), repeat=RGB)]
\* The c-th tuple t (c = 0, 1, ...) of the product, last band fastest.
PossibilityCount == (B + 1) ^ RGB
\* A faulty product over range(B): no candidate gives a band all B bits
ProductTupleShort(c) == [b \in 1..RGB |-> (c \div (B ^ (RGB - b))) % B]

ProductTuple(c) == [b \in 1..RGB |-> (c \div ((B + 1) ^ (RGB - b))) % (B + 1)]
Compress(t) ==
    LET F[b \in 0..RGB] ==
            IF b = 0 THEN <<>>
            ELSE IF t[b] # 0 THEN Append(F[b - 1], <<b - 1, t[b]>>)
                 ELSE F[b - 1]
    IN  F[RGB]
possibilities == [c \in 1..PossibilityCount |-> Compress(ProductTuple(c - 1))]

\* for i_lsb in (possibilities if brute else (Globals.i_lsb,)): ... else: ...
\* candidates_step is the body of the outer loop at candidate c (0-based):
\* one whole extraction, then "if message.endswith(DELIMITER): break".
\* s.found is FALSE at the end when the for loop ran out of candidates
\* (its else branch); s.tried counts the candidates extracted with.
candidates_result(s, r, delimiter, c) ==
    [found   |-> EndsWith(r.message, delimiter),
     message |-> r.message,
     c       |-> c,
     k       |-> r.k,
     tried   |-> s.tried + 1]

candidates_step(s, imagedata, pixels, candidates, delimiter, c) ==
    candidates_result(s, decode_loop(imagedata, pixels, candidates[c + 1],
                                     delimiter),
                      delimiter, c)

\* A faulty outer loop without its break: every candidate is extracted with
RECURSIVE candidates_all(_, _, _, _, _, _, _)
candidates_all(s, imagedata, pixels, candidates, delimiter, lo, hi) ==
    IF lo >= hi \/ s.tried < 0 THEN s
    ELSE IF hi = lo + 1
         THEN candidates_step(s, imagedata, pixels, candidates, delimiter, lo)
    ELSE candidates_all(candidates_all(s, imagedata, pixels, candidates,
                                       delimiter, lo, (lo + hi) \div 2),
                        imagedata, pixels, candidates, delimiter,
                        (lo + hi) \div 2, hi)

RECURSIVE candidates_run(_, _, _, _, _, _, _)
candidates_run(s, imagedata, pixels, candidates, delimiter, lo, hi) ==
    IF lo >= hi \/ s.found THEN s
    ELSE IF hi = lo + 1
         THEN candidates_step(s, imagedata, pixels, candidates, delimiter, lo)
    ELSE LET mid == (lo + hi) \div 2
         IN  candidates_run(candidates_run(s, imagedata, pixels, candidates,
                                           delimiter, lo, mid),
                            imagedata, pixels, candidates, delimiter, mid, hi)

candidates_loop(imagedata, pixels, candidates, delimiter) ==
    candidates_run([found |-> FALSE, message |-> <<>>, c |-> 0, k |-> 0,
                    tried |-> 0],
                   imagedata, pixels, candidates, delimiter,
                   0, Len(candidates))

-----------------------------------------------------------------------------
(* The cipher pipeline (module crypto)                                     *)

\* tuple(crypto.ciphers): the no-cipher entry first; X_ciphers.current(1)
\* selects the second entry at start-up.
CipherNames == <<"", "Caesar", "Hill">>

\* crypto.Hill.name
HillName == "Hill"

\* The block length of the fixed-block cipher
HillBlock == 2

IsDigits(key) == \A k \in 1..Len(key) : key[k] \in 48..57

\* The decimal value of a string of digits
Decimal(key) ==
    LET F[k \in 0..Len(key)] ==
            IF k = 0 THEN 0 ELSE 10 * F[k - 1] + (key[k] - 48)
    IN  F[Len(key)]

\* crypto.ciphers[name](key, ...): FALSE when the constructor raises
CipherAccepts(name, key) ==
    IF name = "" THEN TRUE ELSE key # <<>> /\ IsDigits(key)

\* The printable characters 32..126 rotated by n places
Rotate(text, n) ==
    [k \in 1..Len(text) |->
        IF text[k] \in 32..126 THEN 32 + ((text[k] - 32 + n) % 95)
        ELSE text[k]]

\* The fixed-block cipher works on whole blocks: a text that does not fill
\* its last block is padded with spaces
HillPad(text) ==
    text \o [k \in 1..((HillBlock - (Len(text) % HillBlock)) % HillBlock)
                |-> 32]

\* cipher.encrypt() and cipher.decrypt()
Encrypt(name, key, text) ==
    IF name = "" THEN text
    ELSE IF name = HillName THEN Rotate(HillPad(text), Decimal(key) % 95)
    ELSE Rotate(text, Decimal(key) % 95)
Decrypt(name, key, text) ==
    IF name = "" THEN text ELSE Rotate(text, 95 - (Decimal(key) % 95))

-----------------------------------------------------------------------------
(* refresh                                                                 *)

ScaleWidgets == <<"scale0", "scale1", "scale2">>
ScaleIndex(widget) == CHOOSE b \in 1..RGB : ScaleWidgets[b] = widget
IsScale(widget) == \E b \in 1..RGB : ScaleWidgets[b] = widget

\* A faulty comprehension without its filter: a pair for every scale
ScaleItemsAll(sc) == [b \in 1..RGB |-> <<b - 1, sc[b]>>]

\* {band: lsb for band, scl in enumerate(scales) if (lsb := int(scl.get())) != 0}
\* as the tuple of its items, in band order.
ScaleItems(sc) ==
    LET F[b \in 0..RGB] ==
            IF b = 0 THEN <<>>
            ELSE IF sc[b] # 0 THEN Append(F[b - 1], <<b - 1, sc[b]>>)
                 ELSE F[b - 1]
    IN  F[RGB]

\* sum(i_lsb.values())
SumLsb(i_lsb) ==
    LET F[n \in 0..Len(i_lsb)] ==
            IF n = 0 THEN 0 ELSE F[n - 1] + i_lsb[n][2]
    IN  F[Len(i_lsb)]

\* A faulty limit: the capacity openasfile shows, (pixel * RGB) - len(DELIMITER)
LimitCapacity(pixel, i_lsb, delimiter) == (pixel * RGB) - Len(delimiter)

\* A faulty limit: % for //
LimitRemainder(pixel, i_lsb, delimiter) ==
    ((pixel * SumLsb(i_lsb)) % B) - Len(delimiter)

\* limit = ((Picture.pixel * sum(i_lsb.values())) // B) - len(DELIMITER)
Limit(pixel, i_lsb, delimiter) ==
    ((pixel * SumLsb(i_lsb)) \div B) - Len(delimiter)

\* message[:limit], a Python slice: a negative limit counts from the end
SliceTo(message, limit) ==
    IF limit >= 0 THEN SubSeq(message, 1, Min(limit, Len(message)))
    ELSE SubSeq(message, 1, Len(message) + limit)

\* The allocation refresh stores: the non-zero scales, or, when the scale
\* that fired the event left all three at 0, that scale reset to 1.
RefreshFix(widget, sc) == IsScale(widget) /\ Len(ScaleItems(sc)) = 0
RefreshScales(widget, sc) ==
    IF RefreshFix(widget, sc) THEN [sc EXCEPT ![ScaleIndex(widget)] = 1]
    ELSE sc
\* A faulty "Fix LSB" that falls back on one bit for every band
RefreshItemsAll(widget, sc) ==
    IF RefreshFix(widget, sc) THEN [b \in 1..RGB |-> <<b - 1, 1>>]
    ELSE ScaleItems(sc)

RefreshItems(widget, sc) ==
    IF RefreshFix(widget, sc) THEN << <<ScaleIndex(widget) - 1, 1>> >>
    ELSE ScaleItems(sc)

\* if len(message) > limit: delete the text and insert message[:limit]
RefreshText(message, limit) ==
    IF Len(message) > limit THEN SliceTo(message, limit) ELSE message

\* "if (not key) and ciphername": encode and decode are unbound and disabled
RefreshLocked(key, ciphername) == key = <<>> /\ ciphername # ""

\* The bindings and states refresh leaves
\* A faulty activation that binds encode whenever it binds decode
RefreshWidgetsBoth(key, ciphername, message) ==
    LET dec == ~RefreshLocked(key, ciphername)
    IN  [activated   |-> TRUE,
         bind_decode |-> dec, M_decode |-> dec, B_decode |-> dec,
         bind_encode |-> dec, M_encode |-> dec, B_encode |-> dec]

RefreshWidgets(key, ciphername, message) ==
    LET dec == ~RefreshLocked(key, ciphername)
        enc == dec /\ message # <<>>
    IN  [activated   |-> TRUE,
         bind_decode |-> dec, M_decode |-> dec, B_decode |-> dec,
         bind_encode |-> enc, M_encode |-> enc, B_encode |-> enc]

\* The handler outcome record with nothing in it
NoLast ==
    [op |-> "none", dialog |-> "", src |-> <<>>,
     text |-> <<>>, message |-> <<>>, pixels |-> <<>>, i_lsb |-> <<>>,
     seed |-> <<>>, image |-> <<>>, k |-> 0, i |-> 0, found |-> FALSE,
     c |-> 0, tried |-> 0, brute |-> FALSE, rng0 |-> 0, effects |-> {}]

\* refresh(event) with event.widget = widget, run when the widgets hold
\* ciphername, key0, message and sc and the opened picture has pixel pixels.
refresh(widget, ciphername, key0, message, sc, pixel) ==
    LET key   == IF widget = "X_ciphers" THEN <<>> ELSE key0
        i_lsb == RefreshItems(widget, sc)
        limit == Limit(pixel, i_lsb, DELIMITER)
        text1 == RefreshText(message, limit)
    IN  /\ E_key' = key
        /\ X_ciphers' = ciphername
        /\ widgets' = RefreshWidgets(key, ciphername, message)
        /\ scales' = RefreshScales(widget, sc)
        /\ encode_text' = text1
        /\ F_book' = [used |-> Len(text1), left |-> limit - Len(text1),
                      limit |-> limit]
        /\ Globals' = [i_lsb |-> i_lsb, limit |-> limit]

-----------------------------------------------------------------------------
(* openasfile                                                              *)

\* MIN_PIXEL: min_pix = B + (B * len(DELIMITER))
MinPixel(delimiter) == B + (B * Len(delimiter))

\* The encode that produced a picture file; embedded is FALSE for a picture
\* no encode of this run has written.
NoOrigin ==
    [embedded |-> FALSE, src |-> <<>>, text |-> <<>>, message |-> <<>>,
     i_lsb |-> <<>>, seed |-> <<>>, pixels |-> <<>>, k |-> 0, i |-> 0,
     cipher |-> "", key |-> <<>>]

\* A faulty openasfile without the test of the pixel count
FileAcceptedAny(file, delimiter) == file.kind = "picture"

\* The checks of openasfile on one chosen file: extension, readable by the
\* image library, mode, pixel count.
FileAccepted(file, delimiter) ==
    /\ file.kind = "picture"
    /\ ~(file.pixel < MinPixel(delimiter))

\* The while loop of openasfile over the files the user picks, one per
\* dialog; a rejected file is followed by the next pick when the user
\* answers Retry.  The index of the file that is opened, 0 when the handler
\* returns 'break'.
OpenChoice(tries, delimiter) ==
    IF \E n \in 1..Len(tries) : FileAccepted(tries[n], delimiter)
    THEN CHOOSE n \in 1..Len(tries) :
            /\ FileAccepted(tries[n], delimiter)
            /\ \A m \in 1..(n - 1) : ~FileAccepted(tries[m], delimiter)
    ELSE 0

\* A faulty open whose rejection does not stop the event: activate and
\* refresh run after it with the picture there was
OpenFileThrough(tries) ==
    LET n == OpenChoice(tries, DELIMITER)
    IN  IF n = 0
        THEN /\ last' = [NoLast EXCEPT !.op = "open", !.dialog = "break"]
             /\ refresh("root", X_ciphers, E_key, encode_text, scales,
                        Picture.pixel)
             /\ UNCHANGED <<DELIMITER, Picture, Var_opened, decode_text,
                            E_prng, brute, Var_output, B_show, rng, origin>>
        ELSE /\ Picture' = [pixel     |-> tries[n].pixel,
                            imagedata |-> tries[n].imagedata,
                            filename  |-> tries[n].name]
             /\ Var_opened' = tries[n].name
             /\ Var_output' = ""
             /\ B_show' = FALSE
             /\ refresh("root", X_ciphers, E_key, encode_text, scales,
                        tries[n].pixel)
             /\ origin' = tries[n].origin
             /\ last' = [NoLast EXCEPT !.op = "open", !.dialog = "opened"]
             /\ UNCHANGED <<DELIMITER, decode_text, E_prng, brute, rng>>

\* V_EVENT_OPEN_FILE: openasfile, then (unless it returned 'break') activate
\* on the first open, then refresh.
OpenFile(tries) ==
    LET n == OpenChoice(tries, DELIMITER)
    IN  IF n = 0
        THEN /\ last' = [NoLast EXCEPT !.op = "open", !.dialog = "break"]
             /\ UNCHANGED <<DELIMITER, Picture, Var_opened, Globals, scales,
                            encode_text, decode_text, E_prng, X_ciphers,
                            E_key, brute, Var_output, B_show, widgets,
                            F_book, rng, origin>>
        ELSE /\ Picture' = [pixel     |-> tries[n].pixel,
                            imagedata |-> tries[n].imagedata,
                            filename  |-> tries[n].name]
             /\ Var_opened' = tries[n].name
             /\ Var_output' = ""
             /\ B_show' = FALSE
             /\ refresh("root", X_ciphers, E_key, encode_text, scales,
                        tries[n].pixel)
             /\ origin' = tries[n].origin
             /\ last' = [NoLast EXCEPT !.op = "open", !.dialog = "opened"]
             /\ UNCHANGED <<DELIMITER, decode_text, E_prng, brute, rng>>

-----------------------------------------------------------------------------
(* The widget events bound to refresh by activate                          *)

RefreshLast(widget) == [NoLast EXCEPT !.op = "refresh"]

\* <KeyRelease> (and cut, paste, undo, redo) on the encode text, which then
\* holds message
TypeText(message) ==
    /\ widgets.activated
    /\ refresh("encode", X_ciphers, E_key, message, scales, Picture.pixel)
    /\ last' = RefreshLast("encode")
    /\ UNCHANGED <<DELIMITER, Picture, Var_opened, decode_text, E_prng, brute,
                   Var_output, B_show, rng, origin>>

\* The outcome of a scale event: "fix" when refresh took the "Fix LSB"
\* branch (widget.set(1))
ScaleLast(widget, sc) ==
    IF RefreshFix(widget, sc)
    THEN [RefreshLast(widget) EXCEPT !.dialog = "fix"]
    ELSE RefreshLast(widget)

\* A mouse release or drag on scale number band (0-based), which then
\* shows lsb
MoveScale(band, lsb) ==
    /\ widgets.activated
    /\ refresh(ScaleWidgets[band + 1], X_ciphers, E_key, encode_text,
               [scales EXCEPT ![band + 1] = lsb], Picture.pixel)
    /\ last' = ScaleLast(ScaleWidgets[band + 1],
                         [scales EXCEPT ![band + 1] = lsb])
    /\ UNCHANGED <<DELIMITER, Picture, Var_opened, decode_text, E_prng, brute,
                   Var_output, B_show, rng, origin>>

\* <<ComboboxSelected>> on the cipher box
SelectCipher(name) ==
    /\ widgets.activated
    /\ refresh("X_ciphers", name, E_key, encode_text, scales, Picture.pixel)
    /\ last' = RefreshLast("X_ciphers")
    /\ UNCHANGED <<DELIMITER, Picture, Var_opened, decode_text, E_prng, brute,
                   Var_output, B_show, rng, origin>>

\* <KeyRelease> on the key entry, which then holds key
TypeKey(key) ==
    /\ widgets.activated
    /\ refresh("E_key", X_ciphers, key, encode_text, scales, Picture.pixel)
    /\ last' = RefreshLast("E_key")
    /\ UNCHANGED <<DELIMITER, Picture, Var_opened, decode_text, E_prng, brute,
                   Var_output, B_show, rng, origin>>

\* Typing in the seed entry: no handler is bound to it
TypeSeed(seed) ==
    /\ widgets.activated
    /\ E_prng' = seed
    /\ UNCHANGED <<DELIMITER, Picture, Var_opened, Globals, scales,
                   encode_text, decode_text, X_ciphers, E_key, brute,
                   Var_output, B_show, widgets, F_book, rng, origin, last>>

-----------------------------------------------------------------------------
(* encode                                                                  *)

\* A faulty copy, image = Picture.imagedata: the same buffer under a new name
ArrayAlias(buffer) == buffer

\* image = Picture.imagedata.copy(): the buffer the loop writes to.  A copy
\* is a new buffer, "image"; the source buffer is "Picture.imagedata".
ArrayCopy(buffer) == "image"

\* A faulty encode that constructs the cipher before it looks at the
\* characters
EncodeOutcomeKeyFirst(ok, output, save_ok) ==
    IF E_key = <<>> /\ X_ciphers # "" THEN "nokey"
    ELSE IF encode_text = <<>> THEN "nomessage"
    ELSE IF ~CipherAccepts(X_ciphers, E_key) THEN "badkey"
    ELSE IF nonascii(encode_text) # -1 THEN "nonascii"
    ELSE IF /\ X_ciphers = HillName
            /\ Len(Encrypt(X_ciphers, E_key, encode_text)) > Globals.limit
         THEN "toolong"
    ELSE IF /\ Contains(Encrypt(X_ciphers, E_key, encode_text), DELIMITER)
            /\ ~ok
         THEN "cancelled"
    ELSE IF output = "" THEN "nosave"
    ELSE IF output = "bad" THEN "badextension"
    ELSE IF ~save_ok THEN "oserror"
    ELSE "encoded"

\* A faulty encode that checks the length whatever the cipher
EncodeOutcomeAnyCipher(ok, output, save_ok) ==
    IF E_key = <<>> /\ X_ciphers # "" THEN "nokey"
    ELSE IF encode_text = <<>> THEN "nomessage"
    ELSE IF nonascii(encode_text) # -1 THEN "nonascii"
    ELSE IF ~CipherAccepts(X_ciphers, E_key) THEN "badkey"
    ELSE IF Len(Encrypt(X_ciphers, E_key, encode_text)) > Globals.limit
         THEN "toolong"
    ELSE IF /\ Contains(Encrypt(X_ciphers, E_key, encode_text), DELIMITER)
            /\ ~ok
         THEN "cancelled"
    ELSE IF output = "" THEN "nosave"
    ELSE IF output = "bad" THEN "badextension"
    ELSE IF ~save_ok THEN "oserror"
    ELSE "encoded"

\* How far encode gets.  ok is the answer to the delimiter warning, output
\* the answer of the save dialog ("" cancelled, "bad" a name with a wrong
\* extension, else the path), save_ok whether Image.save succeeds.
EncodeOutcome(ok, output, save_ok) ==
    IF E_key = <<>> /\ X_ciphers # "" THEN "nokey"
    ELSE IF encode_text = <<>> THEN "nomessage"
    ELSE IF nonascii(encode_text) # -1 THEN "nonascii"
    ELSE IF ~CipherAccepts(X_ciphers, E_key) THEN "badkey"
    ELSE IF /\ X_ciphers = HillName
            /\ Len(Encrypt(X_ciphers, E_key, encode_text)) > Globals.limit
         THEN "toolong"
    ELSE IF /\ Contains(Encrypt(X_ciphers, E_key, encode_text), DELIMITER)
            /\ ~ok
         THEN "cancelled"
    ELSE IF output = "" THEN "nosave"
    ELSE IF output = "bad" THEN "badextension"
    ELSE IF ~save_ok THEN "oserror"
    ELSE "encoded"

\* The outcomes in which the embedding loop has run
Embedded(outcome) == outcome \in {"oserror", "encoded"}

\* What encode did, by how far it got
EncodeEffects(outcome) ==
    CASE outcome \in {"nokey", "nomessage", "nonascii", "badkey"} -> {}
      [] outcome \in {"toolong", "cancelled"} -> {"cipher", "encrypt"}
      [] outcome \in {"nosave", "badextension"} ->
            {"cipher", "encrypt", "savedialog"}
      [] outcome = "oserror" ->
            {"cipher", "encrypt", "savedialog", "traverse", "embed"}
      [] outcome = "encoded" ->
            {"cipher", "encrypt", "savedialog", "traverse", "embed", "write"}

\* A faulty warning that looks for the delimiter in the typed text
EncodeWarningPlain(outcome) ==
    IF /\ outcome \notin {"nokey", "nomessage", "nonascii", "badkey",
                          "toolong"}
       /\ Contains(encode_text, DELIMITER)
    THEN {"warning"} ELSE {}

\* if DELIMITER in message: askokcancel(...), message being the cipher text
EncodeWarning(outcome) ==
    IF /\ outcome \notin {"nokey", "nomessage", "nonascii", "badkey",
                          "toolong"}
       /\ Contains(Encrypt(X_ciphers, E_key, encode_text), DELIMITER)
    THEN {"warning"} ELSE {}

\* V_EVENT_ENCODE, bound by refresh
EncodeDone(outcome, output, message, target, order, run) ==
    /\ IF Embedded(outcome)
       THEN /\ rng' = order.state
            /\ Picture' = IF target = "image" THEN Picture
                          ELSE [Picture EXCEPT !.imagedata = run.image]
            /\ last' = [NoLast EXCEPT
                           !.op = "encode", !.dialog = outcome,
                           !.src = Picture.imagedata,
                           !.text = encode_text, !.message = message,
                           !.pixels = order.x, !.i_lsb = Globals.i_lsb,
                           !.seed = E_prng, !.image = run.image,
                           !.k = run.k, !.i = run.i, !.rng0 = rng,
                           !.effects = EncodeEffects(outcome)
                                          \cup EncodeWarning(outcome)]
       ELSE /\ rng' = rng
            /\ Picture' = Picture
            /\ last' = [NoLast EXCEPT
                           !.op = "encode", !.dialog = outcome,
                           !.effects = EncodeEffects(outcome)
                                          \cup EncodeWarning(outcome)]
    /\ Var_output' = IF outcome = "encoded" THEN output ELSE Var_output
    /\ B_show' = IF outcome = "encoded" THEN TRUE ELSE B_show
    /\ UNCHANGED <<DELIMITER, Var_opened, Globals, scales, encode_text,
                   decode_text, E_prng, X_ciphers, E_key, brute, widgets,
                   F_book, origin>>

\* message += DELIMITER; image = Picture.imagedata.copy(); bits; pixels;
\* the loop
EncodeEmbed(outcome, output, message, order) ==
    EncodeDone(outcome, output, message, ArrayCopy("Picture.imagedata"), order,
               encode_loop(Picture.imagedata, ToBits(message \o DELIMITER),
                           order.x, Globals.i_lsb))

\* A faulty encode that embeds the typed text: message = cipher.encrypt()
\* is missing
EncodePlain(ok, output, save_ok) ==
    /\ widgets.bind_encode
    /\ IF Embedded(EncodeOutcome(ok, output, save_ok))
       THEN EncodeEmbed(EncodeOutcome(ok, output, save_ok), output,
                        encode_text,
                        PixelOrder(Picture.pixel, E_prng, rng))
       ELSE EncodeDone(EncodeOutcome(ok, output, save_ok), output, <<>>,
                       "image", [x |-> <<>>, state |-> rng], NoLast)

\* V_EVENT_ENCODE, bound by refresh
Encode(ok, output, save_ok) ==
    /\ widgets.bind_encode
    /\ IF Embedded(EncodeOutcome(ok, output, save_ok))
       THEN EncodeEmbed(EncodeOutcome(ok, output, save_ok), output,
                        Encrypt(X_ciphers, E_key, encode_text),
                        PixelOrder(Picture.pixel, E_prng, rng))
       ELSE EncodeDone(EncodeOutcome(ok, output, save_ok), output, <<>>,
                       "image", [x |-> <<>>, state |-> rng], NoLast)

-----------------------------------------------------------------------------
(* decode                                                                  *)

\* possibilities if config['brute'].get() else (Globals.i_lsb,)
Candidates == IF brute THEN possibilities ELSE <<Globals.i_lsb>>

\* A faulty decode whose candidate loop has no else branch
DecodeOutcomeNoElse(r) ==
    IF E_key = <<>> /\ X_ciphers # "" THEN "nokey"
    ELSE IF ~CipherAccepts(X_ciphers, E_key) THEN "badkey"
    ELSE IF nonascii(r.message) # -1 THEN "nonascii"
    ELSE "decoded"

\* A faulty decode that constructs the cipher after the extraction
DecodeOutcomeKeyLast(r) ==
    IF E_key = <<>> /\ X_ciphers # "" THEN "nokey"
    ELSE IF ~r.found THEN "nomessage"
    ELSE IF nonascii(r.message) # -1 THEN "nonascii"
    ELSE IF ~CipherAccepts(X_ciphers, E_key) THEN "badkey"
    ELSE "decoded"

\* How far decode gets; r is the outcome of the loop over the candidates
DecodeOutcome(r) ==
    IF E_key = <<>> /\ X_ciphers # "" THEN "nokey"
    ELSE IF ~CipherAccepts(X_ciphers, E_key) THEN "badkey"
    ELSE IF ~r.found THEN "nomessage"
    ELSE IF nonascii(r.message) # -1 THEN "nonascii"
    ELSE "decoded"

Traversed(outcome) == outcome \in {"nomessage", "nonascii", "decoded"}

DecodeEffects(outcome) ==
    CASE outcome \in {"nokey", "badkey"} -> {}
      [] outcome \in {"nomessage", "nonascii"} -> {"cipher", "traverse"}
      [] outcome = "decoded" -> {"cipher", "traverse", "decrypt", "write"}

\* A faulty decode that leaves the Show button as it was
ShowKept(outcome, show) == show

\* B_show['state'] = tk.DISABLED, reached by a decode that found a text
ShowAfterDecode(outcome, show) ==
    IF outcome = "decoded" THEN FALSE ELSE show

DecodeDone(outcome, order, r, message) ==
    /\ IF Traversed(outcome)
       THEN /\ rng' = order.state
            /\ last' = [NoLast EXCEPT
                           !.op = "decode", !.dialog = outcome,
                           !.src = Picture.imagedata,
                           !.message = r.message,
                           !.text = IF outcome = "decoded" THEN message
                                    ELSE <<>>,
                           !.pixels = order.x,
                           !.i_lsb = IF r.found THEN Candidates[r.c + 1]
                                     ELSE <<>>,
                           !.seed = E_prng, !.k = r.k, !.found = r.found,
                           !.c = r.c, !.tried = r.tried, !.brute = brute,
                           !.rng0 = rng,
                           !.effects = DecodeEffects(outcome)]
       ELSE /\ rng' = rng
            /\ last' = [NoLast EXCEPT
                           !.op = "decode", !.dialog = outcome,
                           !.effects = DecodeEffects(outcome)]
    /\ decode_text' = IF outcome = "decoded" THEN message ELSE decode_text
    /\ Var_output' = IF outcome = "decoded" THEN "" ELSE Var_output
    /\ B_show' = ShowAfterDecode(outcome, B_show)
    /\ UNCHANGED <<DELIMITER, Picture, Var_opened, Globals, scales,
                   encode_text, E_prng, X_ciphers, E_key, brute, widgets,
                   F_book, origin>>

\* nonascii check; message.removesuffix(DELIMITER); cipher.decrypt()
DecodeFound(order, r) ==
    DecodeDone(DecodeOutcome(r), order, r,
               Decrypt(X_ciphers, E_key, RemoveSuffix(r.message, DELIMITER)))

\* pixels; the loop over the candidates
DecodeExtract(order) ==
    DecodeFound(order,
                candidates_loop(Picture.imagedata, order.x, Candidates,
                                DELIMITER))

\* V_EVENT_DECODE, bound by refresh
Decode ==
    /\ widgets.bind_decode
    /\ DecodeExtract(PixelOrder(Picture.pixel, E_prng, rng))

-----------------------------------------------------------------------------
(* The environment: the files, texts, keys and seeds the user works with   *)

\* "#" and "##END##"
Delimiters == {<<35>>, <<35, 35, 69, 78, 68, 35, 35>>}

\* A picture an earlier run has written: "A#" in the lowest bit of band 0
StegoBits == ToBits(<<65, 35>>)

\* The band values of pixel pix (0-based) of the cover pictures
CoverPixel(pattern, pix) ==
    CASE pattern = "zero"  -> <<0, 0, 0>>
      [] pattern = "ones"  -> <<255, 255, 255>>
      [] pattern = "hash"  -> <<35, 35, 35>>
      [] pattern = "stego" -> <<200 + StegoBits[(pix % Len(StegoBits)) + 1],
                                77, 130>>
      [] pattern = "mix"   -> <<((37 * pix) + 7) % 256,
                                ((101 * pix) + 13) % 256,
                                ((59 * pix) + 200) % 256>>

\* np.array(list(pic.getdata())) of a cover picture
CoverData(pattern, pixel) == [p \in 1..pixel |-> CoverPixel(pattern, p - 1)]

CoverFile(pattern, pixel) ==
    [name |-> pattern, kind |-> "picture", pixel |-> pixel,
     imagedata |-> CoverData(pattern, pixel), origin |-> NoOrigin]

\* A file openasfile turns down before it looks at the pixels: a wrong
\* extension, not an image, an unsupported mode
BadFile(kind) ==
    [name |-> kind, kind |-> kind, pixel |-> 0, imagedata |-> <<>>,
     origin |-> NoOrigin]

\* The picture the last encode wrote, as openasfile reads it back
OutputFile ==
    [name |-> Var_output, kind |-> "picture", pixel |-> Picture.pixel,
     imagedata |-> last.image,
     origin |-> [embedded |-> TRUE, src |-> last.src, text |-> last.text,
                 message |-> last.message, i_lsb |-> last.i_lsb,
                 seed |-> last.seed, pixels |-> last.pixels, k |-> last.k,
                 i |-> last.i, cipher |-> X_ciphers, key |-> E_key]]

\* Opening the picture that encode has just written
OpenOutput ==
    /\ last.op = "encode"
    /\ last.dialog = "encoded"
    /\ OpenFile(<<OutputFile>>)

\* Texts: "HI", "A", "$%", "A#", "#", "A" + e-acute, and a long text
TextHI == <<72, 73>>
LongText(n) == [k \in 1..n |-> <<72, 73, 36, 37, 65>>[((k - 1) % 5) + 1]]

\* Seeds: none, "1", "2"
Seeds == {<<>>, <<49>>, <<50>>}

\* The generator state at start-up or left by code outside the model
RngStarts == {1}

\* Before the first open: no picture, no stored allocation or limit
NoPicture == [pixel |-> 0, imagedata |-> <<>>, filename |-> ""]
NoWidgets ==
    [activated   |-> FALSE,
     bind_decode |-> FALSE, M_decode |-> FALSE, B_decode |-> FALSE,
     bind_encode |-> FALSE, M_encode |-> FALSE, B_encode |-> FALSE]

-----------------------------------------------------------------------------
(* Spec: a session from program start                                      *)

MaxTextLen == 3

GuiDelimiters == {<<35>>}
\* three pixels more than the minimum, so that the limit is a proper floor
GuiPicture == CoverFile("stego", MinPixel(DELIMITER) + RGB)
GuiSmall == CoverFile("zero", MinPixel(DELIMITER) - 1)
\* The picks of one run of openasfile: the dialog cancelled, one pick, or a
\* rejected pick followed by another after Retry
GuiTries ==
    {<<>>, <<GuiPicture>>, <<BadFile("badmode")>>, <<GuiSmall, GuiPicture>>}
\* "", "A" + e-acute, and the leading MaxTextLen characters of "A#HI$%"
GuiLong(n) == [k \in 1..n |-> <<65, 35, 72, 73, 36, 37>>[((k - 1) % 6) + 1]]
GuiTexts == {<<>>, <<65, 233>>, GuiLong(MaxTextLen)}
GuiStops == {0, 1}
\* no key, "3", and "x", which no cipher accepts
GuiKeys == {<<>>, <<51>>, <<120>>}
GuiSeeds == {<<>>, <<49>>}
\* The answers to the dialogs of encode: the delimiter warning, the save
\* dialog, and whether the image library could write the file
EncodeAnswers ==
    {<<TRUE, "out", TRUE>>, <<TRUE, "out", FALSE>>, <<TRUE, "bad", TRUE>>,
     <<TRUE, "", TRUE>>, <<FALSE, "out", TRUE>>}

Init ==
    /\ DELIMITER \in GuiDelimiters
    /\ Picture = NoPicture
    /\ Var_opened = ""
    /\ Globals = [i_lsb |-> <<>>, limit |-> 0]
    /\ scales = <<1, 1, 1>>
    /\ encode_text = <<>>
    /\ decode_text = <<>>
    /\ E_prng = <<>>
    /\ X_ciphers = CipherNames[2]
    /\ E_key = <<>>
    /\ brute = FALSE
    /\ Var_output = ""
    /\ B_show = FALSE
    /\ widgets = NoWidgets
    /\ F_book = [used |-> 0, left |-> 0, limit |-> 0]
    /\ rng \in RngStarts
    /\ origin = NoOrigin
    /\ last = NoLast

Next ==
    \/ \E tries \in GuiTries : OpenFile(tries)
    \/ \E message \in GuiTexts : TypeText(message)
    \/ \E band \in 0..(RGB - 1), lsb \in GuiStops : MoveScale(band, lsb)
    \/ \E n \in 1..Len(CipherNames) : SelectCipher(CipherNames[n])
    \/ \E key \in GuiKeys : TypeKey(key)
    \/ \E seed \in GuiSeeds : TypeSeed(seed)
    \/ \E a \in EncodeAnswers : Encode(a[1], a[2], a[3])
    \/ Decode

Spec == Init /\ [][Next]_vars

-----------------------------------------------------------------------------
(* SpecCodec: encode, reopen the output, decode, over drawn inputs          *)

\* The state after opening file, choosing no cipher, setting the scales to
\* sc, typing text and seed: refresh has stored the allocation and the
\* limit and cut the text to the limit.
Prepared(delimiter, file, sc, text, seed, start, force) ==
    LET i_lsb == ScaleItems(sc)
        limit == Limit(file.pixel, i_lsb, delimiter)
        text1 == RefreshText(text, limit)
    IN  /\ DELIMITER = delimiter
        /\ Picture = [pixel |-> file.pixel, imagedata |-> file.imagedata,
                      filename |-> file.name]
        /\ Var_opened = file.name
        /\ Globals = [i_lsb |-> i_lsb, limit |-> limit]
        /\ scales = sc
        /\ encode_text = text1
        /\ decode_text = <<>>
        /\ E_prng = seed
        /\ X_ciphers = ""
        /\ E_key = <<>>
        /\ brute = force
        /\ Var_output = ""
        /\ B_show = FALSE
        /\ widgets = RefreshWidgets(<<>>, "", text1)
        /\ F_book = [used |-> Len(text1), left |-> limit - Len(text1),
                     limit |-> limit]
        /\ rng = start
        /\ origin = NoOrigin
        /\ last = RefreshLast("encode")

MaxCodecLen == 6

CodecFiles(delimiter) ==
    {CoverFile(c, MinPixel(delimiter)) : c \in {"mix", "ones"}}
        \cup {CoverFile("zero", 100)}
\* The scale settings: one band, all bands, sums that do and do not divide
\* B, the whole byte
CodecScales ==
    {<<1, 0, 0>>, <<0, 0, 1>>, <<1, 1, 1>>, <<2, 0, 0>>, <<3, 0, 0>>,
     <<0, 3, 2>>, <<5, 0, 3>>, <<B, 0, 0>>, <<0, 7, B>>, <<B, B, B>>}
\* "A", "HI", "$%", "A" + DELIMITER + "B", "A##END", a long text
CodecTexts(delimiter) ==
    {<<65>>, TextHI, <<36, 37>>, <<65>> \o delimiter \o <<66>>,
     <<65, 35, 35, 69, 78, 68>>, LongText(MaxCodecLen)}
CodecSeeds == {<<>>, <<49>>}

InitCodec ==
    \E delimiter \in Delimiters :
        \E file \in CodecFiles(delimiter), sc \in CodecScales,
           text \in CodecTexts(delimiter), seed \in CodecSeeds,
           start \in RngStarts :
            Prepared(delimiter, file, sc, text, seed, start, FALSE)

NextCodec ==
    \/ Encode(TRUE, "out", TRUE)
    \/ OpenOutput
    \/ Decode

SpecCodec == InitCodec /\ [][NextCodec]_vars

-----------------------------------------------------------------------------
(* SpecOrder: the pixel order over seeds and generator histories            *)

\* Generator states left by whatever used the random module before
OrderStarts == {1, 40000}
OrderFiles == {CoverFile("mix", MinPixel(<<35>>)), CoverFile("zero", 20)}
OrderScales == {<<1, 0, 0>>, <<1, 1, 1>>}

InitOrder ==
    \E file \in OrderFiles, sc \in OrderScales, seed \in Seeds,
       start \in OrderStarts :
        Prepared(<<35>>, file, sc, TextHI, seed, start, FALSE)

NextOrder ==
    \/ \E seed \in Seeds : TypeSeed(seed)
    \/ Encode(TRUE, "out", TRUE)
    \/ OpenOutput
    \/ Decode

SpecOrder == InitOrder /\ [][NextOrder]_vars

-----------------------------------------------------------------------------
(* SpecBrute: the same with the brute-force preference                      *)

\* The "Use brute force technique to decode" checkbutton of preferences
Preferences ==
    /\ brute' = ~brute
    /\ UNCHANGED <<DELIMITER, Picture, Var_opened, Globals, scales,
                   encode_text, decode_text, E_prng, X_ciphers, E_key,
                   Var_output, B_show, widgets, F_book, rng, origin, last>>

BruteFiles == {CoverFile(c, MinPixel(<<35>>)) : c \in {"zero", "mix"}}
BruteScales == {<<0, 0, 1>>, <<2, 0, 0>>}
\* "A", "$%"
BruteTexts == {<<65>>, <<36, 37>>}
BruteSeeds == {<<>>}

InitBrute ==
    \E file \in BruteFiles, sc \in BruteScales, text \in BruteTexts,
       seed \in BruteSeeds :
        Prepared(<<35>>, file, sc, text, seed, 1, TRUE)

NextBrute ==
    \/ Encode(TRUE, "out", TRUE)
    \/ OpenOutput
    \/ Decode
    \/ Preferences

SpecBrute == InitBrute /\ [][NextBrute]_vars

-----------------------------------------------------------------------------
(* SpecKeys: typing with a cipher selected; a key press puts the character *)
(* in the text at once, refresh runs only when the key is released         *)

\* The state after opening file, selecting cipher, typing key, setting the
\* scales to sc, typing text and seed
PreparedWith(delimiter, file, sc, text, seed, start, cipher, key) ==
    LET i_lsb == ScaleItems(sc)
        limit == Limit(file.pixel, i_lsb, delimiter)
        text1 == RefreshText(text, limit)
    IN  /\ DELIMITER = delimiter
        /\ Picture = [pixel |-> file.pixel, imagedata |-> file.imagedata,
                      filename |-> file.name]
        /\ Var_opened = file.name
        /\ Globals = [i_lsb |-> i_lsb, limit |-> limit]
        /\ scales = sc
        /\ encode_text = text1
        /\ decode_text = <<>>
        /\ E_prng = seed
        /\ X_ciphers = cipher
        /\ E_key = key
        /\ brute = FALSE
        /\ Var_output = ""
        /\ B_show = FALSE
        /\ widgets = RefreshWidgets(key, cipher, text1)
        /\ F_book = [used |-> Len(text1), left |-> limit - Len(text1),
                     limit |-> limit]
        /\ rng = start
        /\ origin = NoOrigin
        /\ last = RefreshLast("encode")

MaxTypedLen == 4

\* <KeyPress> on the encode text: the Text widget inserts the character; the
\* handler activate binds, refresh, is bound to <KeyRelease> only.  The
\* sessions modelled type before they reopen a written picture.
KeyPress(char) ==
    /\ widgets.activated
    /\ Len(encode_text) < MaxTypedLen
    /\ ~origin.embedded
    /\ encode_text' = Append(encode_text, char)
    /\ UNCHANGED <<DELIMITER, Picture, Var_opened, Globals, scales,
                   decode_text, E_prng, X_ciphers, E_key, brute, Var_output,
                   B_show, widgets, F_book, rng, origin, last>>

\* <KeyRelease> on the encode text
KeyRelease == TypeText(encode_text)

KeysFiles == {CoverFile(c, MinPixel(<<35>>)) : c \in {"zero", "mix"}}
KeysScales == {<<0, 0, 1>>, <<1, 1, 0>>}
\* "A", "#"
KeysChars == {65, 35}
\* No cipher, and each cipher with the key "65", under which "A" becomes
\* "#" and "#" becomes "d"
KeysCiphers ==
    {<<CipherNames[1], <<>>>>} \cup
    {<<CipherNames[n], <<54, 53>>>> : n \in 2..Len(CipherNames)}
\* The delimiter warning answered with OK or Cancel; the file written or not
KeysAnswers ==
    {<<TRUE, "out", TRUE>>, <<FALSE, "out", TRUE>>, <<TRUE, "out", FALSE>>}

InitKeys ==
    \E file \in KeysFiles, sc \in KeysScales, c \in KeysCiphers :
        PreparedWith(<<35>>, file, sc, <<>>, <<>>, 1, c[1], c[2])

NextKeys ==
    \/ \E char \in KeysChars : KeyPress(char)
    \/ KeyRelease
    \/ \E a \in KeysAnswers : Encode(a[1], a[2], a[3])
    \/ OpenOutput
    \/ Decode

SpecKeys == InitKeys /\ [][NextKeys]_vars

-----------------------------------------------------------------------------
(* SpecEntry: the key entry; as in the text, a key press changes the entry *)
(* at once and refresh runs when the key is released                       *)

\* <KeyPress> on the key entry, which then holds key
KeyPressKey(key) ==
    /\ widgets.activated
    /\ E_key' = key
    /\ UNCHANGED <<DELIMITER, Picture, Var_opened, Globals, scales,
                   encode_text, decode_text, E_prng, X_ciphers, brute,
                   Var_output, B_show, widgets, F_book, rng, origin, last>>

\* <KeyRelease> on the key entry
KeyReleaseKey == TypeKey(E_key)

EntryFiles == {CoverFile("stego", MinPixel(<<35>>))}
EntryScales == {<<1, 0, 0>>, <<0, 1, 1>>}
\* "A", "A" + e-acute
EntryTexts == {<<65>>, <<65, 233>>}
\* no key, "3", "x"
EntryKeys == {<<>>, <<51>>, <<120>>}

InitEntry ==
    \E file \in EntryFiles, sc \in EntryScales, text \in EntryTexts,
       n \in 1..Len(CipherNames), key \in EntryKeys :
        PreparedWith(<<35>>, file, sc, text, <<>>, 1, CipherNames[n], key)

NextEntry ==
    \/ \E key \in EntryKeys : KeyPressKey(key)
    \/ KeyReleaseKey
    \/ \E n \in 1..Len(CipherNames) : SelectCipher(CipherNames[n])
    \/ \E a \in KeysAnswers : Encode(a[1], a[2], a[3])
    \/ OpenOutput
    \/ Decode

SpecEntry == InitEntry /\ [][NextEntry]_vars

-----------------------------------------------------------------------------
(* SpecLimit: the scales after the first open                              *)

\* The positions a scale is moved to
LimitStops == {0, 1, 3, B}
LimitFiles(delimiter) ==
    {CoverFile("mix", MinPixel(delimiter)),
     CoverFile("stego", MinPixel(delimiter) + RGB)}

\* The state after the first open: every scale at 1 since start-up
InitLimit ==
    \E delimiter \in Delimiters :
        \E file \in LimitFiles(delimiter) :
            Prepared(delimiter, file, <<1, 1, 1>>, <<65>>, <<>>, 1, FALSE)

NextLimit ==
    \/ \E band \in 0..(RGB - 1), lsb \in LimitStops : MoveScale(band, lsb)
    \/ Encode(TRUE, "out", TRUE)
    \/ Decode

SpecLimit == InitLimit /\ [][NextLimit]_vars

-----------------------------------------------------------------------------
(* SpecOpen: opening pictures around the minimum pixel count               *)

\* Pictures of B pixels less than the minimum, one less, the minimum, one
\* more
OpenSizes ==
    {MinPixel(DELIMITER) - B, MinPixel(DELIMITER) - 1, MinPixel(DELIMITER),
     MinPixel(DELIMITER) + 1}
OpenFiles == {CoverFile(c, n) : c \in {"zero", "mix"}, n \in OpenSizes}
\* The picks of one run of openasfile: none, one, a second after Retry, or
\* a file of an unsupported mode
OpenTries ==
    {<<>>, <<BadFile("badmode")>>} \cup {<<f>> : f \in OpenFiles}
        \cup {<<CoverFile("zero", MinPixel(DELIMITER) - 1), f>> :
                f \in OpenFiles}
OpenStops == {0, 1, 2}
OpenTexts == {<<>>, TextHI}

NextOpen ==
    \/ \E tries \in OpenTries : OpenFile(tries)
    \/ \E band \in 0..(RGB - 1), lsb \in OpenStops : MoveScale(band, lsb)
    \/ \E message \in OpenTexts : TypeText(message)

SpecOpen == Init /\ [][NextOpen]_vars

-----------------------------------------------------------------------------
(* SpecScales: the scales moved with the keyboard; activate binds refresh  *)
(* to the mouse events of a scale only, so a key that moves the slider of  *)
(* a focused scale changes its value and no handler runs                   *)

\* <Up>, <Down>, <Home>, <End> on scale number band (0-based), which then
\* shows lsb
ScaleKey(band, lsb) ==
    /\ widgets.activated
    /\ scales[band + 1] # lsb
    /\ scales' = [scales EXCEPT ![band + 1] = lsb]
    /\ UNCHANGED <<DELIMITER, Picture, Var_opened, Globals, encode_text,
                   decode_text, E_prng, X_ciphers, E_key, brute, Var_output,
                   B_show, widgets, F_book, rng, origin, last>>

NextScales ==
    \/ \E band \in 0..(RGB - 1), lsb \in GuiStops : ScaleKey(band, lsb)
    \/ \E band \in 0..(RGB - 1), lsb \in GuiStops : MoveScale(band, lsb)
    \/ \E message \in GuiTexts : TypeText(message)
    \/ Encode(TRUE, "out", TRUE)
    \/ Decode

SpecScales == InitLimit /\ [][NextScales]_vars

-----------------------------------------------------------------------------
(* Reference definitions for the properties                                *)

\* The 0-based index at which sub first occurs in s, Len(s) when it does not
FirstOccurrence(s, sub) ==
    IF Contains(s, sub)
    THEN CHOOSE a \in 0..(Len(s) - Len(sub)) :
            /\ SubSeq(s, a + 1, a + Len(sub)) = sub
            /\ \A b \in 0..(a - 1) : SubSeq(s, b + 1, b + Len(sub)) # sub
    ELSE Len(s)

\* The delimiter that encode appends is the first one of the framed message
DelimiterLast(message, delimiter) ==
    FirstOccurrence(message \o delimiter, delimiter) = Len(message)

\* The bit cursor before step n (0-based) of a traversal with allocation al:
\* every pixel takes sum(lsb) bits, the bands of a pixel in allocation order
Cursor(al, n) ==
    ((n \div Len(al)) * SumLsb(al)) + SumLsb(SubSeq(al, 1, n % Len(al)))

\* The low-order bits of every (pixel, band) pair of a whole traversal, steps
\* lo <= n < hi, with no break
RECURSIVE StreamBits(_, _, _, _, _)
StreamBits(imagedata, pixels, al, lo, hi) ==
    IF lo >= hi THEN <<>>
    ELSE IF hi = lo + 1
         THEN LET v == imagedata[pixels[(lo \div Len(al)) + 1] + 1]
                                [al[(lo % Len(al)) + 1][1] + 1]
                  lsb == al[(lo % Len(al)) + 1][2]
              IN  [k \in 1..lsb |-> (v \div (2 ^ (lsb - k))) % 2]
    ELSE StreamBits(imagedata, pixels, al, lo, (lo + hi) \div 2)
            \o StreamBits(imagedata, pixels, al, (lo + hi) \div 2, hi)

\* The characters of a bit string, B bits each, an incomplete tail dropped
StreamText(bits) ==
    [n \in 1..(Len(bits) \div B) |->
        Int2(SubSeq(bits, (B * (n - 1)) + 1, B * n))]

\* The length of the shortest prefix of text that ends with delimiter, 0
\* when no prefix does
HaltLength(text, delimiter) ==
    IF \E n \in 1..Len(text) : EndsWith(SubSeq(text, 1, n), delimiter)
    THEN CHOOSE n \in 1..Len(text) :
            /\ EndsWith(SubSeq(text, 1, n), delimiter)
            /\ \A m \in 1..(n - 1) : ~EndsWith(SubSeq(text, 1, m), delimiter)
    ELSE 0

\* The index (0-based) in possibilities of the allocation al
TrueIndex(al) ==
    LET F[m \in 0..Len(al)] ==
            IF m = 0 THEN 0
            ELSE F[m - 1] + (al[m][2] * ((B + 1) ^ (RGB - 1 - al[m][1])))
    IN  F[Len(al)]

\* The last handler was an encode that ran its embedding loop
EmbedCase == last.op = "encode" /\ last.pixels # <<>>

\* The last handler was a decode that ran its extraction loop
ExtractCase == last.op = "decode" /\ last.pixels # <<>>

\* A decode, with the stored allocation, of a picture that an encode with the
\* same allocation and seed has written with a printable text within the
\* limit
RoundTripCase ==
    /\ ExtractCase
    /\ ~last.brute
    /\ origin.embedded
    /\ Globals.i_lsb = origin.i_lsb
    /\ last.seed = origin.seed
    /\ last.pixels = origin.pixels
    /\ nonascii(origin.message) = -1
    /\ Len(origin.message) <= Globals.limit

-----------------------------------------------------------------------------
(* C1: the round trip                                                      *)

\* C1 as stated: every printable message M within the capacity, embedded as
\* M + DELIMITER and extracted with the same allocation and pixel order,
\* comes back exactly.
C1_RoundTripAll ==
    RoundTripCase =>
        /\ last.dialog = "decoded"
        /\ RemoveSuffix(last.message, DELIMITER) = origin.message
        /\ decode_text = origin.text

\* C1: a printable message M within the capacity, embedded as M + DELIMITER
\* and extracted with the same allocation and pixel order, comes back as the
\* part of M + DELIMITER before the first occurrence of DELIMITER: exactly
\* M when the appended delimiter is that first occurrence.
C1_RoundTrip ==
    RoundTripCase =>
        /\ last.dialog = "decoded"
        /\ RemoveSuffix(last.message, DELIMITER)
              = SubSeq(origin.message \o DELIMITER, 1,
                       FirstOccurrence(origin.message \o DELIMITER, DELIMITER))
        /\ DelimiterLast(origin.message, DELIMITER) =>
              /\ last.message = origin.message \o DELIMITER
              /\ decode_text = origin.text

\* A message at the limit, on several bands, in a shuffled order, has come
\* back
C1_Witness ==
    /\ RoundTripCase
    /\ DelimiterLast(origin.message, DELIMITER)
    /\ Len(origin.message) = Globals.limit
    /\ Len(origin.i_lsb) > 1
    /\ origin.seed # <<>>
    /\ decode_text = origin.text

-----------------------------------------------------------------------------
(* C2: the character limit                                                 *)

\* The encode that has just run got as far as the check of the limit
ReachedLimitCheck ==
    /\ last.op = "encode"
    /\ last.dialog \notin {"nokey", "nomessage", "nonascii", "badkey"}

\* C2: after refresh the stored limit is floor((P * sum of the allocation's
\* bit counts) / B) - len(DELIMITER), the counter shown is that number, and
\* encode turns a text down as too long exactly when the cipher is Hill and
\* the cipher text is longer than that number.
C2_Limit ==
    widgets.activated =>
        /\ B * (Globals.limit + Len(DELIMITER))
              <= Picture.pixel * SumLsb(Globals.i_lsb)
        /\ Picture.pixel * SumLsb(Globals.i_lsb)
              < B * (Globals.limit + Len(DELIMITER) + 1)
        /\ F_book.limit = Globals.limit
        /\ ReachedLimitCheck =>
              (last.dialog = "toolong" <=>
                  /\ X_ciphers = HillName
                  /\ B * (Len(Encrypt(X_ciphers, E_key, encode_text))
                             + Len(DELIMITER))
                        > Picture.pixel * SumLsb(Globals.i_lsb))

\* The Hill check has turned a text down under a limit that is a proper floor
C2_Witness ==
    /\ widgets.activated
    /\ last.op = "encode"
    /\ last.dialog = "toolong"
    /\ (Picture.pixel * SumLsb(Globals.i_lsb)) % B # 0
    /\ Globals.limit > 1

-----------------------------------------------------------------------------
(* C3: the worked example                                                  *)

\* 100 pixels, allocation {0: 1}, delimiter "#", no seed
ExampleCase ==
    /\ Picture.pixel = 100
    /\ Globals.i_lsb = << <<0, 1>> >>
    /\ DELIMITER = <<35>>
    /\ E_prng = <<>>

\* "HI" was embedded in the opened picture and a decode has just run
ExampleDecoded ==
    /\ ExampleCase
    /\ last.op = "decode"
    /\ origin.embedded
    /\ origin.text = TextHI
    /\ origin.i_lsb = Globals.i_lsb
    /\ origin.seed = <<>>

\* C3 as stated: in the example the limit is 100 - 1 = 99 characters and
\* "HI" comes back.
C3_Capacity99 ==
    /\ ExampleCase => Globals.limit = 100 - 1
    /\ ExampleDecoded => (last.dialog = "decoded" /\ decode_text = TextHI)

\* C3: in the example the limit is floor(100 / 8) - 1 = 11 characters and
\* "HI" comes back.
C3_Capacity11 ==
    /\ ExampleCase => (Globals.limit = 11 /\ F_book.limit = 11)
    /\ ExampleDecoded => (last.dialog = "decoded" /\ decode_text = TextHI)

\* "HI" has come back in the example
C3_Witness ==
    /\ ExampleDecoded
    /\ Globals.limit = 11
    /\ decode_text = TextHI

-----------------------------------------------------------------------------
(* C4: encode writes to a copy                                             *)

\* C4: no encode, however it ends, changes Picture: the pixels a later
\* encode or decode works on are the pixels that were opened.
C4_PrivateCopy ==
    [][last'.op = "encode" => Picture' = Picture]_vars

\* An encode has written a picture that differs from the opened one, which
\* is still what it was
C4_Witness ==
    /\ EmbedCase
    /\ last.dialog = "encoded"
    /\ last.image # last.src
    /\ Picture.imagedata = last.src

-----------------------------------------------------------------------------
(* C5: what the embedding loop changes                                     *)

\* Step n wrote a chunk of bits: the B - lsb high bits are the old ones, the
\* chunk follows, and what is left below a short last chunk is old as well
StepWritten(bits, al, n) ==
    LET pix  == last.pixels[(n \div Len(al)) + 1] + 1
        band == al[(n % Len(al)) + 1][1] + 1
        lsb  == al[(n % Len(al)) + 1][2]
        c    == Min(lsb, Len(bits) - Cursor(al, n))
    IN  /\ c > 0
        /\ last.image[pix][band] \div (2 ^ lsb)
              = last.src[pix][band] \div (2 ^ lsb)
        /\ (last.image[pix][band] \div (2 ^ (lsb - c))) % (2 ^ c)
              = Int2(SubSeq(bits, Cursor(al, n) + 1, Cursor(al, n) + c))
        /\ last.image[pix][band] % (2 ^ (lsb - c))
              = last.src[pix][band] % (2 ^ (lsb - c))

\* Step n was not taken: the value is the old one
StepSkipped(al, n) ==
    LET pix  == last.pixels[(n \div Len(al)) + 1] + 1
        band == al[(n % Len(al)) + 1][1] + 1
    IN  last.image[pix][band] = last.src[pix][band]

\* The frame of an embedding of bits with allocation al over total steps
FrameHolds(bits, al, total) ==
    /\ Len(last.image) = Len(last.src)
    /\ last.k <= total
    /\ last.k < total => Cursor(al, last.k) >= Len(bits)
    /\ last.k > 0 => Cursor(al, last.k - 1) < Len(bits)
    /\ \A n \in 0..(total - 1) :
          IF n < last.k THEN StepWritten(bits, al, n) ELSE StepSkipped(al, n)
    /\ \A pix \in 1..Len(last.src), band \in 1..RGB :
          (\A m \in 1..Len(al) : al[m][1] # band - 1) =>
              last.image[pix][band] = last.src[pix][band]

\* C5: the embedding loop changes only the low lsb bits of the (pixel, band)
\* pairs it visits before the bit cursor reaches the end of the bit string:
\* each visited value keeps its B - lsb high bits and, under a short last
\* chunk, its lowest bits; bands outside the allocation and every pair from
\* the stopping step on keep their values.
C5_Frame ==
    EmbedCase =>
        FrameHolds(ToBits(last.message \o DELIMITER), last.i_lsb,
                   Len(last.pixels) * Len(last.i_lsb))

\* An embedding whose last chunk was short, that stopped before the end of
\* the traversal, with a band outside the allocation, in a picture whose low
\* bits are not all 0
C5_Witness ==
    /\ EmbedCase
    /\ last.k > 0
    /\ last.k < Len(last.pixels) * Len(last.i_lsb)
    /\ Cursor(last.i_lsb, last.k) > Len(ToBits(last.message \o DELIMITER))
    /\ Len(last.i_lsb) < RGB
    /\ last.src[1][1] % 2 = 1
    /\ last.image # last.src

-----------------------------------------------------------------------------
(* C6: where extraction halts                                              *)

\* The extraction against the text of the whole traversal: it halts at the
\* shortest prefix that ends with DELIMITER, after the step that completed
\* the last character of it, and the text shown is that prefix without its
\* one trailing delimiter, decrypted
HaltHolds(text, n) ==
    /\ last.found <=> n > 0
    /\ n > 0 =>
          /\ last.message = SubSeq(text, 1, n)
          /\ Cursor(Globals.i_lsb, last.k) >= B * n
          /\ Cursor(Globals.i_lsb, last.k - 1) < B * n
          /\ last.dialog = "decoded" =>
                decode_text = Decrypt(X_ciphers, E_key,
                                      SubSeq(text, 1, n - Len(DELIMITER)))
          /\ last.dialog # "decoded" => nonascii(SubSeq(text, 1, n)) # -1

HaltAt(text) == HaltHolds(text, HaltLength(text, DELIMITER))

\* "A" was embedded with the delimiter "##END##" and a decode has just run
\* with the allocation and seed of the embedding
EndCase ==
    /\ RoundTripCase
    /\ DELIMITER = <<35, 35, 69, 78, 68, 35, 35>>
    /\ origin.text = <<65>>

\* C6: extraction halts at the first character after which the text ends with
\* DELIMITER and returns the text without that one trailing delimiter; "A"
\* embedded with the delimiter "##END##" extracts to exactly "A".
C6_Halt ==
    /\ (ExtractCase /\ ~last.brute) =>
          HaltAt(StreamText(StreamBits(last.src, last.pixels, Globals.i_lsb, 0,
                                       Len(last.pixels) * Len(Globals.i_lsb))))
    /\ EndCase => (last.dialog = "decoded" /\ decode_text = <<65>>)

\* "A" has come back from under "##END##", the extraction having halted
\* before the end of the traversal
C6_Witness ==
    /\ EndCase
    /\ decode_text = <<65>>
    /\ last.k < Len(last.pixels) * Len(Globals.i_lsb)

-----------------------------------------------------------------------------
(* C7: no delimiter                                                        *)

\* The decode recorded in r read every (pixel, band) pair and its text
\* never ended with DELIMITER
Exhausted(r, al) ==
    /\ r.op = "decode"
    /\ r.pixels # <<>>
    /\ ~r.brute
    /\ ~r.found
    /\ r.k = Len(r.pixels) * Len(al)

\* C7: a decode that reads every (pixel, band) pair without the text ever
\* ending with DELIMITER reports "No hidden message found" and returns: no
\* decrypt, no decoded text, no change of the output record, the Show button
\* or Picture.
C7_NoMessage ==
    [][Exhausted(last', Globals'.i_lsb) =>
          /\ last'.dialog = "nomessage"
          /\ last'.effects \cap {"decrypt", "write"} = {}
          /\ decode_text' = decode_text
          /\ Var_output' = Var_output
          /\ B_show' = B_show
          /\ Picture' = Picture]_vars

\* A decode has found nothing while an earlier decoded text and an output
\* record were there to lose
C7_Witness ==
    /\ Exhausted(last, Globals.i_lsb)
    /\ last.dialog = "nomessage"
    /\ decode_text # <<>>
    /\ Var_output # ""
    /\ B_show

-----------------------------------------------------------------------------
(* C8: the brute-force search                                              *)

\* A brute-force decode, with the seed of the embedding, of a picture that
\* an encode has written with one of the enumerated allocations
BruteCase ==
    /\ ExtractCase
    /\ last.brute
    /\ origin.embedded
    /\ last.seed = origin.seed
    /\ possibilities[TrueIndex(origin.i_lsb) + 1] = origin.i_lsb
    /\ DelimiterLast(origin.message, DELIMITER)

\* C8 as stated: the search returns the embedded message.
C8_FindsMessage ==
    BruteCase => (last.dialog = "decoded" /\ decode_text = origin.text)

\* The text extracted with candidate c (0-based)
CandidateText(c) ==
    decode_loop(Picture.imagedata, last.pixels, possibilities[c + 1],
                DELIMITER).message

\* C8: the search never reports "no message" for a picture embedded with an
\* enumerated allocation; it returns the text of the first candidate, in the
\* order of the enumeration, whose extraction ends with DELIMITER, which is
\* the embedded message when that candidate is the allocation of the
\* embedding and the text of an earlier candidate otherwise.
C8_FirstHit ==
    BruteCase =>
        /\ last.found
        /\ last.dialog \in {"decoded", "nonascii"}
        /\ last.c <= TrueIndex(origin.i_lsb)
        /\ last.tried = last.c + 1
        /\ last.message = CandidateText(last.c)
        /\ EndsWith(last.message, DELIMITER)
        /\ \A c \in 0..(last.c - 1) : ~EndsWith(CandidateText(c), DELIMITER)
        /\ last.c = TrueIndex(origin.i_lsb) =>
              (last.dialog = "decoded" /\ decode_text = origin.text)
        /\ last.dialog = "decoded" =>
              decode_text = RemoveSuffix(last.message, DELIMITER)

\* The search has found the embedded message with the allocation of the
\* embedding, which is not the one the decoder has stored, after candidates
\* that yield nothing
C8_Witness ==
    /\ BruteCase
    /\ last.c = TrueIndex(origin.i_lsb)
    /\ last.c > 1
    /\ last.dialog = "decoded"
    /\ decode_text = origin.text

-----------------------------------------------------------------------------
(* C9: the pixel order does not depend on the history                      *)

\* The handler recorded in r has computed a pixel order
Shuffled(r) == r.op \in {"encode", "decode"} /\ r.pixels # <<>>

\* C9: the pixel order depends on the pixel count and the seed alone: the
\* orders of two handlers in a row, and the order of any handler and that of
\* the encode that wrote the opened picture, are the same when pixel count
\* and seed are, whatever state the generator was left in; and two encodes
\* in a row of the same message into the same picture with the same
\* allocation and seed give the same picture.
C9_Determinism ==
    [][/\ (/\ Shuffled(last) /\ Shuffled(last')
           /\ last'.seed = last.seed
           /\ Len(last'.pixels) = Len(last.pixels))
              => last'.pixels = last.pixels
       /\ (/\ Shuffled(last') /\ origin'.embedded
           /\ last'.seed = origin'.seed
           /\ Len(last'.pixels) = Len(origin'.pixels))
              => last'.pixels = origin'.pixels
       /\ (/\ EmbedCase /\ last'.op = "encode" /\ last'.pixels # <<>>
           /\ last'.src = last.src
           /\ last'.i_lsb = last.i_lsb
           /\ last'.seed = last.seed
           /\ last'.message = last.message)
              => last'.image = last.image]_vars

\* A handler has shuffled with a seed, starting from a generator state that
\* earlier shuffles had left, and its order is that of the encode that wrote
\* the opened picture
C9_Witness ==
    /\ Shuffled(last)
    /\ last.seed # <<>>
    /\ last.rng0 \notin OrderStarts
    /\ last.rng0 # RandomSeed(last.seed)
    /\ origin.embedded
    /\ origin.seed = last.seed
    /\ last.pixels = origin.pixels
    /\ last.pixels # Range(Picture.pixel)

-----------------------------------------------------------------------------
(* C10: the pixel order is a permutation                                   *)

\* C10: the pixel order holds every pixel index of [0, P) exactly once; it
\* is 0, 1, ..., P - 1 when the seed is empty and otherwise the shuffle of
\* that sequence by the generator seeded with the seed.
C10_Permutation ==
    Shuffled(last) =>
        /\ Len(last.pixels) = Picture.pixel
        /\ \A p \in 0..(Picture.pixel - 1) :
              Cardinality({n \in 1..Picture.pixel : last.pixels[n] = p}) = 1
        /\ last.seed = <<>> =>
              last.pixels = [n \in 1..Picture.pixel |-> n - 1]
        /\ last.seed # <<>> =>
              last.pixels
                  = RandomShuffle([n \in 1..Picture.pixel |-> n - 1],
                                  RandomSeed(last.seed)).x

\* A shuffled order that is not the identity
C10_Witness ==
    /\ Shuffled(last)
    /\ last.seed # <<>>
    /\ Len(last.pixels) = Picture.pixel
    /\ last.pixels # Range(Picture.pixel)

-----------------------------------------------------------------------------
(* C11: the Hill overflow                                                  *)

\* The step is a run of encode
EncodeStep == last'.op = "encode" /\ last' # last

\* encode gets as far as cipher.encrypt() and the cipher text is longer than
\* the stored limit
OverLimit ==
    /\ ~RefreshLocked(E_key, X_ciphers)
    /\ encode_text # <<>>
    /\ nonascii(encode_text) = -1
    /\ CipherAccepts(X_ciphers, E_key)
    /\ Len(Encrypt(X_ciphers, E_key, encode_text)) > Globals.limit

\* C11: an encode with the Hill cipher whose cipher text is longer than the
\* limit ends with the over-limit error before the save dialog and the
\* embedding: no pixel is written to a copy, no file is written, and the
\* picture, the output record and the Show button stay as they were.  With
\* any other cipher the over-limit error never comes, however long the
\* cipher text is.
C11_HillOverflow ==
    [][EncodeStep =>
          /\ (OverLimit /\ X_ciphers = HillName) => last'.dialog = "toolong"
          /\ last'.dialog = "toolong" =>
                /\ X_ciphers = HillName
                /\ Picture' = Picture
                /\ Var_output' = Var_output
                /\ B_show' = B_show
                /\ last'.image = <<>>
                /\ last'.pixels = <<>>
                /\ last'.effects \cap
                      {"savedialog", "traverse", "embed", "write"} = {}
          /\ (OverLimit /\ X_ciphers # HillName) =>
                last'.dialog \in {"cancelled", "oserror", "encoded"}]_vars

\* The Hill check has turned a text down while an earlier output was on
\* record
C11_Witness ==
    /\ last.op = "encode"
    /\ last.dialog = "toolong"
    /\ OverLimit
    /\ Var_output # ""
    /\ B_show

-----------------------------------------------------------------------------
(* C12: embedding more bits than the picture holds                         *)

\* The embedding loop has run on a bit string longer than the P * sum(lsb)
\* bits of the traversal
OverflowCase ==
    /\ EmbedCase
    /\ Len(ToBits(last.message \o DELIMITER))
          > Len(last.pixels) * SumLsb(last.i_lsb)

\* C12: an embedding of more bits than P * sum(lsb) ends when the (pixel,
\* band) pairs are exhausted, never at the break; every pair has been
\* written, the low bits of the traversal are exactly the leading
\* P * sum(lsb) bits of the bit string, and the picture is saved and
\* reported as encoded like any other.
C12_Overflow ==
    OverflowCase =>
        /\ last.k = Len(last.pixels) * Len(last.i_lsb)
        /\ last.i = Len(last.pixels) * SumLsb(last.i_lsb)
        /\ StreamBits(last.image, last.pixels, last.i_lsb, 0, last.k)
              = SubSeq(ToBits(last.message \o DELIMITER), 1,
                       Len(last.pixels) * SumLsb(last.i_lsb))
        /\ FrameHolds(ToBits(last.message \o DELIMITER), last.i_lsb,
                      Len(last.pixels) * Len(last.i_lsb))
        /\ last.dialog \in {"encoded", "oserror"}
        /\ last.dialog = "encoded" => (Var_output = "out" /\ B_show)
        /\ "write" \in last.effects <=> last.dialog = "encoded"

\* An overflowing embedding on two bands has been saved: the text and the
\* delimiter do not fit, and the picture written differs from the opened one
C12_Witness ==
    /\ OverflowCase
    /\ last.dialog = "encoded"
    /\ Len(last.i_lsb) > 1
    /\ Len(last.message) > Globals.limit
    /\ last.image # last.src
    /\ Var_output = "out"

-----------------------------------------------------------------------------
(* C13: the delimiter inside the message                                   *)

\* encode got as far as the test for the delimiter
ReachedWarning(dialog) ==
    dialog \in {"cancelled", "nosave", "badextension", "oserror", "encoded"}

\* The text a round trip gives for the embedded text m: what precedes the
\* first occurrence of DELIMITER in m
BeforeDelimiter(m) == SubSeq(m, 1, FirstOccurrence(m, DELIMITER))

-----------------------------------------------------------------------------
(* C14: a character outside the printable set                              *)

\* C14: encode turns down a text with a character outside the printable set
\* before it constructs the cipher, whatever the key: it reports the
\* character and does nothing else.  No cipher, encryption, warning, save
\* dialog, traversal, embedding or write; Picture, the scales, the stored
\* allocation and limit, the counter, the output record and the Show button
\* are what they were.
C14_NonAscii ==
    [][EncodeStep =>
          /\ (~RefreshLocked(E_key, X_ciphers) /\ encode_text # <<>>
                  /\ nonascii(encode_text) # -1) =>
                last'.dialog = "nonascii"
          /\ last'.dialog = "nonascii" =>
                /\ nonascii(encode_text) # -1
                /\ last'.effects = {}
                /\ last'.image = <<>>
                /\ last'.pixels = <<>>
                /\ Picture' = Picture
                /\ Globals' = Globals
                /\ scales' = scales
                /\ F_book' = F_book
                /\ Var_output' = Var_output
                /\ B_show' = B_show
                /\ rng' = rng]_vars

\* A text with a character outside the set was turned down while the key
\* was one the cipher does not accept and an earlier output was on record
C14_Witness ==
    /\ last.op = "encode"
    /\ last.dialog = "nonascii"
    /\ nonascii(encode_text) # -1
    /\ X_ciphers # ""
    /\ ~CipherAccepts(X_ciphers, E_key)
    /\ Var_output # ""
    /\ B_show

-----------------------------------------------------------------------------
(* C15: the key is checked first                                           *)

\* The step is a run of decode
DecodeStep == last'.op = "decode" /\ last' # last

\* The handler returned without doing anything but, for a rejected key,
\* showing the error: nothing of the program but the report has changed
KeyFrame ==
    /\ last'.effects = {}
    /\ last'.pixels = <<>>
    /\ last'.image = <<>>
    /\ UNCHANGED <<Picture, Var_opened, Globals, scales, encode_text,
                   decode_text, E_prng, X_ciphers, E_key, brute, Var_output,
                   B_show, widgets, F_book, rng, origin>>

\* C15: encode (on a text it has not turned down for its characters) and
\* decode construct the cipher from the key before anything else.  A key the
\* cipher rejects ends the handler with the error: no encryption or
\* decryption, no traversal, no save dialog, no output; the key entry, its
\* text, Picture, the stored allocation and limit and the output record
\* are what they were.  With an empty key and a cipher selected both
\* handlers return at once and change nothing.
C15_KeyFirst ==
    [][/\ EncodeStep =>
              /\ RefreshLocked(E_key, X_ciphers) => last'.dialog = "nokey"
              /\ (~RefreshLocked(E_key, X_ciphers) /\ encode_text # <<>>
                      /\ nonascii(encode_text) = -1
                      /\ ~CipherAccepts(X_ciphers, E_key)) =>
                    last'.dialog = "badkey"
              /\ last'.dialog \in {"nokey", "badkey"} => KeyFrame
       /\ DecodeStep =>
              /\ RefreshLocked(E_key, X_ciphers) => last'.dialog = "nokey"
              /\ (~RefreshLocked(E_key, X_ciphers)
                      /\ ~CipherAccepts(X_ciphers, E_key)) =>
                    last'.dialog = "badkey"
              /\ last'.dialog \in {"nokey", "badkey"} => KeyFrame]_vars

\* decode has turned a key down on a picture that holds a message, with an
\* output on record
C15_Witness ==
    /\ last.op = "decode"
    /\ last.dialog = "badkey"
    /\ ~CipherAccepts(X_ciphers, E_key)
    /\ origin.embedded
    /\ Var_opened = "out"

-----------------------------------------------------------------------------
(* C16: the limit never falls when a scale is raised                       *)

\* The step raised scale b and left the two others alone
Raised(b) ==
    /\ scales'[b] > scales[b]
    /\ \A c \in 1..RGB : c # b => scales'[c] = scales[c]

\* C16: with the picture and the delimiter fixed, a refresh after one scale
\* was raised and the others were left alone stores a limit that is not
\* lower than the one before, and a higher sum of bits.
C16_Monotone ==
    [][((\E b \in 1..RGB : Raised(b)) /\ Picture' = Picture) =>
          /\ Globals'.limit >= Globals.limit
          /\ SumLsb(Globals'.i_lsb) > SumLsb(Globals.i_lsb)]_vars

\* A limit stored after a scale went from 3 to B while another band was in
\* use: it is higher than the limit with that scale at 3
C16_Witness ==
    /\ last.op = "refresh"
    /\ \E m \in 1..Len(Globals.i_lsb) :
          /\ Globals.i_lsb[m][2] = B
          /\ Len(Globals.i_lsb) > 1
          /\ Globals.limit
                > Limit(Picture.pixel,
                        [Globals.i_lsb EXCEPT ![m] = <<Globals.i_lsb[m][1], 3>>],
                        DELIMITER)
    /\ Globals.limit = Limit(Picture.pixel, ScaleItems(scales), DELIMITER)

-----------------------------------------------------------------------------
(* C17: the minimum pixel count                                            *)

\* The step is a run of openasfile
OpenStep == last'.op = "open" /\ last' # last

\* A picture of pixel pixels holds text and the delimiter under allocation
\* al: the embedding loop writes every bit and the extraction loop finds
\* the delimiter
Holds(pixel, al, text) ==
    LET bits == ToBits(text \o DELIMITER)
        run  == encode_loop(CoverData("mix", pixel), bits, Range(pixel), al)
    IN  /\ run.i >= Len(bits)
        /\ run.i <= pixel * SumLsb(al)
        /\ EndsWith(decode_loop(run.image, Range(pixel), al,
                                DELIMITER).message, DELIMITER)

\* The least allocation refresh can store: one bit in one band
OneBit == << <<0, 1>> >>

\* What C17 says of a run of openasfile in both forms: a picture is opened
\* only with at least B + B * len(DELIMITER) pixels, and a run that opens
\* nothing sets nothing.
OpenChecked ==
    /\ last'.dialog = "opened" =>
          /\ Picture'.pixel >= B + (B * Len(DELIMITER))
          /\ Globals'.limit >= 1
    /\ last'.dialog = "break" =>
          UNCHANGED <<Picture, Var_opened, Var_output, B_show, Globals,
                      scales, encode_text, widgets, F_book, origin>>

\* C17 as stated: B + B * len(DELIMITER) is the smallest pixel count at
\* which a picture holds the delimiter alone, so no smaller picture holds it.
C17_SmallestForDelimiter ==
    [][OpenStep =>
          /\ OpenChecked
          /\ \A pixel \in OpenSizes :
                pixel < B + (B * Len(DELIMITER)) =>
                    /\ Limit(pixel, OneBit, DELIMITER) < 0
                    /\ ~Holds(pixel, OneBit, <<>>)]_vars

\* C17: a picture is opened only with at least B + B * len(DELIMITER)
\* pixels; a run of openasfile that opens nothing sets no attribute of
\* Picture and nothing else.  The threshold is the smallest pixel count at
\* which a picture holds one character and the delimiter with one bit in
\* one band, the least allocation there is: there the limit is 1, and with
\* one pixel less it is 0.  The delimiter alone fits in B pixels less.
C17_Threshold ==
    [][OpenStep =>
          /\ OpenChecked
          /\ Limit(MinPixel(DELIMITER), OneBit, DELIMITER) = 1
          /\ Holds(MinPixel(DELIMITER), OneBit, <<65>>)
          /\ Limit(MinPixel(DELIMITER) - 1, OneBit, DELIMITER) = 0
          /\ ~Holds(MinPixel(DELIMITER) - 1, OneBit, <<65>>)
          /\ Limit(MinPixel(DELIMITER) - B, OneBit, DELIMITER) = 0
          /\ Holds(MinPixel(DELIMITER) - B, OneBit, <<>>)]_vars

\* With one bit in one band stored, a picture of one pixel less than the
\* minimum was turned down and a picture of the minimum opened after Retry
C17_Witness ==
    /\ last.op = "open"
    /\ last.dialog = "opened"
    /\ Picture.pixel = B + (B * Len(DELIMITER))
    /\ Globals.i_lsb = OneBit
    /\ Globals.limit = 1

-----------------------------------------------------------------------------
(* C18: the allocation when no band is chosen                              *)

\* The step is the refresh after scale b, the only one in use, was pulled
\* down to 0: "Fix LSB" has set it back to 1
FixStep(b) ==
    /\ last'.op = "refresh"
    /\ last'.dialog = "fix"
    /\ last' # last
    /\ scales'[b] = 1
    /\ \A c \in 1..RGB : c # b => (scales[c] = 0 /\ scales'[c] = 0)

\* One bit for every band
AllBands == [b \in 1..RGB |-> <<b - 1, 1>>]

\* C18 as stated: when the scales leave no band with a bit count, the limit
\* is computed with one bit for every band.
C18_DefaultAllBands ==
    [][\A b \in 1..RGB :
          FixStep(b) =>
              Globals'.limit = Limit(Picture.pixel, AllBands, DELIMITER)]_vars

\* C18: one bit for every band is the allocation at start-up, when every
\* scale stands at 1: the limit after the first open is
\* floor((P * RGB) / B) - len(DELIMITER).  When a scale event leaves every
\* scale at 0, refresh sets that scale back to 1 and the limit is computed
\* with one bit for that band alone, floor(P / B) - len(DELIMITER).
C18_Default ==
    [][/\ (\A b \in 1..RGB : scales[b] = 1) =>
              /\ Globals.i_lsb = AllBands
              /\ Globals.limit
                    = ((Picture.pixel * RGB) \div B) - Len(DELIMITER)
       /\ \A b \in 1..RGB :
              FixStep(b) =>
                  /\ Globals'.i_lsb = << <<b - 1, 1>> >>
                  /\ Globals'.limit
                        = (Picture.pixel \div B) - Len(DELIMITER)]_vars

\* "Fix LSB" has set the last scale back to 1 and the limit is that of one
\* bit in that band, lower than with one bit for every band
C18_Witness ==
    /\ last.op = "refresh"
    /\ last.dialog = "fix"
    /\ scales = <<0, 0, 1>>
    /\ Globals.i_lsb = << <<2, 1>> >>
    /\ Globals.limit = (Picture.pixel \div B) - Len(DELIMITER)
    /\ Globals.limit < Limit(Picture.pixel, AllBands, DELIMITER)

-----------------------------------------------------------------------------
(* C19: the form of the stored allocation                                  *)

\* The number of channels of the opened picture
ChannelCount == Len(Picture.imagedata[1])

\* al is a sequence of (band, bit count) pairs with bit counts in 1..B and
\* band indices that ascend and stay below the channel count
WellFormed(al) ==
    \A m \in 1..Len(al) :
        /\ al[m][2] \in 1..B
        /\ al[m][1] \in 0..(ChannelCount - 1)
        /\ m > 1 => al[m - 1][1] < al[m][1]

-----------------------------------------------------------------------------
(* C20: the cipher in the round trip                                       *)

\* A decode, with the cipher, key, allocation and seed of the encode, of a
\* picture that encode wrote from a typed text within the length constraint
\* of the cipher: the cipher text is within the limit and, for the block
\* cipher, the typed text fills whole blocks
CipherTripCase ==
    /\ last.op = "decode"
    /\ RoundTripCase
    /\ origin.cipher = X_ciphers
    /\ origin.key = E_key
    /\ CipherAccepts(X_ciphers, E_key)
    /\ X_ciphers = HillName => Len(origin.text) % HillBlock = 0

-----------------------------------------------------------------------------
(* C21: the order of the (pixel, band) pairs                               *)

\* The place (0-based) in allocation al of the band that holds bit r of a
\* pixel, the bands of a pixel taken from the first to the last
BandPlace(al, r) ==
    CHOOSE m \in 0..(Len(al) - 1) :
        /\ SumLsb(SubSeq(al, 1, m)) <= r
        /\ r < SumLsb(SubSeq(al, 1, m + 1))

\* Bit j (0-based) of a pixel-major, band-minor traversal of image: pixel
\* number j \div sum(lsb) of the order, the band that holds bit
\* j % sum(lsb) of that pixel, the chunk of a band read from its high end
BitAt(image, pixels, al, j) ==
    LET m   == BandPlace(al, j % SumLsb(al))
        pix == pixels[(j \div SumLsb(al)) + 1] + 1
        lsb == al[m + 1][2]
        off == (j % SumLsb(al)) - SumLsb(SubSeq(al, 1, m))
    IN  (image[pix][al[m + 1][1] + 1] \div (2 ^ (lsb - 1 - off))) % 2

\* The character m (1-based) of that traversal
CharAt(image, pixels, al, m) ==
    Int2([b \in 1..B |-> BitAt(image, pixels, al, (B * (m - 1)) + b - 1)])

\* C21: embedding and extraction visit the (pixel, band) pairs pixel-major
\* and band-minor, the bands of the allocation in ascending band index: after
\* an embedding, bit j of the framed message lies at place j of that order,
\* so that an earlier bit is never written after a later one, and the text
\* an extraction has read is the text at the same places, in the same order.
C21_PixelMajor ==
    /\ EmbedCase =>
          LET bits == ToBits(last.message \o DELIMITER)
              cap  == Len(last.pixels) * SumLsb(last.i_lsb)
          IN  /\ \A m \in 1..(Len(last.i_lsb) - 1) :
                    last.i_lsb[m][1] < last.i_lsb[m + 1][1]
              /\ \A j \in 0..(Min(Len(bits), cap) - 1) :
                    BitAt(last.image, last.pixels, last.i_lsb, j)
                        = bits[j + 1]
    /\ (ExtractCase /\ ~last.brute) =>
          \A m \in 1..Len(last.message) :
              last.message[m]
                  = CharAt(last.src, last.pixels, Globals.i_lsb, m)
    /\ RoundTripCase =>
          /\ last.pixels = origin.pixels
          /\ \A m \in 1..Len(last.message) :
                last.message[m] = (origin.message \o DELIMITER)[m]

\* A text has come back from a picture written over more than one pixel
\* with two bands, in a shuffled pixel order
C21_Witness ==
    /\ RoundTripCase
    /\ last.dialog = "decoded"
    /\ Len(Globals.i_lsb) = 2
    /\ last.pixels # Range(Len(last.pixels))
    /\ last.k > Len(Globals.i_lsb)
    /\ decode_text = origin.text

-----------------------------------------------------------------------------
(* C22: the candidate allocations and their order                          *)

\* The bands of the assignment <<r, g, b>> that have at least one bit
Allocated(t) ==
    LET Chosen(p) == p[2] # 0
    IN  SelectSeq(<<<<0, t[1]>>, <<1, t[2]>>, <<2, t[3]>>>>, Chosen)

\* The list of candidates: one for every assignment of 0..B bits to the
\* three bands, the last band running fastest, without the zero-bit bands
Enumerated ==
    /\ Len(possibilities) = (B + 1) ^ 3
    /\ \A r \in 0..B, g \in 0..B, b \in 0..B :
          possibilities[(((r * (B + 1)) + g) * (B + 1)) + b + 1]
              = Allocated(<<r, g, b>>)

\* The number of candidates the brute-force decode has left untried
Untried == Len(possibilities) - last.tried

\* C22: the candidate list holds exactly (B + 1)^3 allocations, one per
\* assignment of 0..B bits to each of the three bands, in lexicographic
\* order with the last band fastest and the zero-bit bands removed; a
\* brute-force decode tries them in that order and stops at the first one
\* whose extracted text ends with DELIMITER, trying no later candidate, also
\* when that text is then rejected as non-printable.
C22_FirstCandidate ==
    /\ Enumerated
    /\ (ExtractCase /\ last.brute) =>
          /\ last.found <=> last.dialog \in {"decoded", "nonascii"}
          /\ ~last.found <=> last.dialog = "nomessage"
          /\ ~last.found =>
                /\ Untried = 0
                /\ \A c \in 0..(Len(possibilities) - 1) :
                      ~EndsWith(CandidateText(c), DELIMITER)
          /\ last.found =>
                /\ last.tried = last.c + 1
                /\ last.message = CandidateText(last.c)
                /\ EndsWith(last.message, DELIMITER)
                /\ \A c \in 0..(last.c - 1) :
                      ~EndsWith(CandidateText(c), DELIMITER)
                /\ last.dialog = "nonascii" <=> nonascii(last.message) # -1

\* The search has stopped at a candidate whose text ends with DELIMITER and
\* is not printable, after candidates that yield nothing and before others
\* it has not tried
C22_Witness ==
    /\ ExtractCase
    /\ last.brute
    /\ last.dialog = "nonascii"
    /\ last.c > 0
    /\ Untried > 0

-----------------------------------------------------------------------------
(* C23: nothing runs before a picture is open                              *)

\* A picture has been opened: openasfile has set Picture and Var_opened and
\* activate has run
Opened ==
    /\ Picture.pixel >= MinPixel(DELIMITER)
    /\ Len(Picture.imagedata) = Picture.pixel
    /\ Var_opened # ""
    /\ widgets.activated

\* An open that was cancelled or rejected
BreakStep == last'.op = "open" /\ last'.dialog = "break"

\* C23: the encode and decode handlers run only after a picture has been
\* opened: an open that is cancelled or rejected returns 'break', so that
\* neither activate nor refresh runs after it and nothing changes, and the
\* encode and decode events are bound by refresh alone, which before the
\* first successful open no event reaches.
C23_OpenFirst ==
    [][/\ (EncodeStep \/ DecodeStep) => Opened
       /\ BreakStep =>
             /\ widgets' = widgets
             /\ Picture' = Picture
             /\ Var_opened' = Var_opened
             /\ Globals' = Globals
             /\ F_book' = F_book
       /\ (widgets'.bind_encode \/ widgets'.bind_decode) => Opened'
       /\ widgets' # widgets => last'.op \in {"open", "refresh"}
       /\ ~Opened' => widgets' = NoWidgets]_vars

\* An open has been rejected at program start: no picture, nothing bound
C23_Witness ==
    /\ last.op = "open"
    /\ last.dialog = "break"
    /\ ~Opened
    /\ Picture = NoPicture
    /\ ~widgets.bind_encode
    /\ ~widgets.bind_decode

-----------------------------------------------------------------------------
(* C24: the stored allocation is never empty                               *)

\* C24 as stated: once a picture is open the stored allocation is not empty
\* and the stored limit is at least 1, whichever widget fired refresh.
C24_NonEmpty ==
    Opened => (Globals.i_lsb # <<>> /\ Globals.limit >= 1)

\* What holds: a scale event that leaves all three scales at 0 sets that
\* scale back to 1 and stores the allocation {that band: 1}, with a limit
\* of at least 1.
C24_ScaleEvent ==
    [][/\ \A b \in 1..RGB :
             FixStep(b) =>
                 /\ scales' = [c \in 1..RGB |-> IF c = b THEN 1 ELSE 0]
                 /\ Globals'.i_lsb = << <<b - 1, 1>> >>
       /\ (last'.op = "refresh" /\ last'.dialog = "fix") =>
             (Globals'.i_lsb # <<>> /\ Globals'.limit >= 1)]_vars

\* A refresh fired by the encode text has stored the empty allocation
C24_Empty ==
    /\ Opened
    /\ last.op = "refresh"
    /\ Globals.i_lsb = <<>>
    /\ Globals.limit = 0 - Len(DELIMITER)

-----------------------------------------------------------------------------
(* C25: the text after a refresh                                           *)

\* A step of refresh: the record of it is there and the step is not one
\* that moved a slider with no handler run
RefreshStep ==
    /\ last'.op = "refresh"
    /\ ~(scales' # scales /\ Globals' = Globals)

\* The text and the counters agree with the limit
WithinLimit ==
    /\ Len(encode_text) <= Globals.limit
    /\ F_book.limit = Globals.limit
    /\ F_book.used = Len(encode_text)
    /\ F_book.used + F_book.left = F_book.limit
    /\ F_book.left >= 0

\* C25 as stated: after every refresh that follows a successful open the
\* encode text holds at most limit characters, and the counters shown
\* satisfy used + left = limit with left >= 0.
C25_Truncated ==
    [][RefreshStep => WithinLimit']_vars

\* What holds: the same after every refresh that stores a limit of 0 or
\* more, and a refresh fired by a scale keeps the leading limit characters
\* of the text there was.
C25_TruncatedFrom0 ==
    [][(RefreshStep /\ Globals'.limit >= 0) =>
          /\ WithinLimit'
          /\ scales' # scales =>
                encode_text'
                    = SubSeq(encode_text, 1,
                             Min(Len(encode_text), Globals'.limit))]_vars

-----------------------------------------------------------------------------
(* C26: what refresh enables                                               *)

\* The menu entry, the button and the event binding of each operation agree
Agree(w) ==
    /\ w.M_decode = w.bind_decode
    /\ w.B_decode = w.bind_decode
    /\ w.M_encode = w.bind_encode
    /\ w.B_encode = w.bind_encode

\* The texts refresh can have read in a step: the one there was, or one
\* just typed
ReadTexts == GuiTexts \cup {encode_text}

\* C26: after every refresh decode is bound and enabled exactly when it is
\* not the case that the key is empty while a cipher is selected, and encode
\* is bound and enabled exactly when decode is and the message refresh read
\* is not empty; the menu entry, the button and the event binding of each
\* operation agree in every state.
C26_Bindings ==
    [][/\ Agree(widgets)
       /\ Agree(widgets')
       /\ (last'.op \in {"refresh", "open"} /\ last'.dialog # "break") =>
             /\ widgets'.bind_decode <=> ~(E_key' = <<>> /\ X_ciphers' # "")
             /\ \E message \in ReadTexts :
                   /\ encode_text' = RefreshText(message, Globals'.limit)
                   /\ widgets'.bind_encode
                          <=> (widgets'.bind_decode /\ message # <<>>)]_vars

\* A refresh has enabled decode and not encode: a cipher with its key and
\* no message
C26_Witness ==
    /\ last.op = "refresh"
    /\ X_ciphers # ""
    /\ E_key # <<>>
    /\ encode_text = <<>>
    /\ widgets.bind_decode
    /\ ~widgets.bind_encode

-----------------------------------------------------------------------------
(* C27: the Show button and the output path                                *)

\* The Show button is enabled exactly when an output path is recorded
ShowAgrees == B_show <=> Var_output # ""

\* A run of openasfile, encode or decode that did what it is for
Succeeded ==
    \/ OpenStep /\ last'.dialog = "opened"
    \/ EncodeStep /\ last'.dialog = "encoded"
    \/ DecodeStep /\ last'.dialog = "decoded"

\* C27: in every reachable state the Show button is enabled exactly when
\* the recorded output path is not empty: a successful open or decode
\* empties the path and disables the button, a successful encode records
\* the path of the written file and enables it, and every failed or
\* cancelled operation, like every other event, changes neither.
C27_ShowOutput ==
    [][/\ ShowAgrees
       /\ ShowAgrees'
       /\ (OpenStep /\ last'.dialog = "opened") =>
             (Var_output' = "" /\ ~B_show')
       /\ (DecodeStep /\ last'.dialog = "decoded") =>
             (Var_output' = "" /\ ~B_show')
       /\ (EncodeStep /\ last'.dialog = "encoded") =>
             (Var_output' # "" /\ B_show' /\ "write" \in last'.effects)
       /\ ~Succeeded => (Var_output' = Var_output /\ B_show' = B_show)]_vars

\* A decode that found nothing has left the record of an earlier encode:
\* the path is there and the button enabled
C27_Witness ==
    /\ last.op = "decode"
    /\ last.dialog # "decoded"
    /\ Var_output # ""
    /\ B_show

-----------------------------------------------------------------------------
(* C28: the stored allocation is one of the candidates                     *)

\* al is, as the identical tuple, the candidate at its place in the list
IsCandidate(al) ==
    /\ TrueIndex(al) < Len(possibilities)
    /\ possibilities[TrueIndex(al) + 1] = al

\* Every allocation refresh can store: the non-zero scales of any setting,
\* and the one band at 1 of "Fix LSB"
AllCandidates ==
    /\ \A r \in 0..B, g \in 0..B, b \in 0..B :
          IsCandidate(ScaleItems(<<r, g, b>>))
    /\ \A band \in 1..RGB :
          IsCandidate(RefreshItems(ScaleWidgets[band], <<0, 0, 0>>))

\* The text an extraction with the stored allocation reads from the picture
\* and pixel order of the last decode
StoredText ==
    decode_loop(last.src, last.pixels, Globals.i_lsb, DELIMITER).message

\* C28: when an extraction with the stored allocation finds a text that
\* ends with DELIMITER, a brute-force decode of the same picture with the
\* same seed does not report "No hidden message found": every allocation
\* the scales can produce is, as the identical tuple, one of the candidates,
\* so the search stops at the stored allocation or before it.
C28_BruteCovers ==
    /\ AllCandidates
    /\ IsCandidate(Globals.i_lsb)
    /\ (ExtractCase /\ last.brute /\ EndsWith(StoredText, DELIMITER)) =>
          /\ last.found
          /\ last.dialog \in {"decoded", "nonascii"}
          /\ last.c <= TrueIndex(Globals.i_lsb)
          /\ last.c = TrueIndex(Globals.i_lsb) => last.message = StoredText

\* A brute-force decode has stopped at the stored allocation, whose text
\* ends with DELIMITER, after candidates that yield nothing
C28_Witness ==
    /\ ExtractCase
    /\ last.brute
    /\ EndsWith(StoredText, DELIMITER)
    /\ last.c = TrueIndex(Globals.i_lsb)
    /\ last.c > 1
    /\ last.dialog = "decoded"

-----------------------------------------------------------------------------
(* C29: extraction stays within what embedding wrote                       *)

\* A decode, with the allocation and pixel order of the embedding, of a
\* picture whose framed message fitted the capacity
FitCase ==
    /\ ExtractCase
    /\ ~last.brute
    /\ origin.embedded
    /\ Globals.i_lsb = origin.i_lsb
    /\ last.pixels = origin.pixels
    /\ Len(ToBits(origin.message \o DELIMITER))
          <= Len(origin.pixels) * SumLsb(origin.i_lsb)

\* The (pixel, band) pairs of the first k steps of a traversal
Visited(pixels, al, k) ==
    {<<pixels[(n \div Len(al)) + 1], al[(n % Len(al)) + 1][1]>> :
        n \in 0..(k - 1)}

\* image with every value outside the pairs of sites complemented
Scrubbed(image, sites) ==
    [p \in 1..Len(image) |->
        [b \in 1..Len(image[p]) |->
            IF <<p - 1, b - 1>> \in sites THEN image[p][b]
            ELSE ((2 ^ B) - 1) - image[p][b]]]

\* The extraction over the picture of the last decode with everything that
\* the embedding did not write complemented
ScrubbedRun ==
    decode_loop(Scrubbed(last.src,
                         Visited(origin.pixels, origin.i_lsb, origin.k)),
                last.pixels, Globals.i_lsb, DELIMITER)

\* C29: for a framed message whose bits fit the capacity, an extraction
\* with the allocation and pixel order of the embedding finds a text and
\* halts no later than the step at which the embedding wrote its last bits:
\* it reads no (pixel, band) pair the embedding did not write, and so reads
\* the same text whatever the other values of the picture are.
C29_WithinWritten ==
    FitCase =>
        /\ last.found
        /\ last.k <= origin.k
        /\ Visited(last.pixels, Globals.i_lsb, last.k)
              \subseteq Visited(origin.pixels, origin.i_lsb, origin.k)
        /\ ScrubbedRun.message = last.message
        /\ ScrubbedRun.k = last.k

\* An extraction has halted at the very step the embedding stopped at, short
\* of the end of a traversal whose remaining values are not all 0
C29_Witness ==
    /\ FitCase
    /\ last.dialog = "decoded"
    /\ last.k = origin.k
    /\ last.k < Len(last.pixels) * Len(Globals.i_lsb)
    /\ \E p \in 1..Len(last.src) :
          /\ \A b \in 0..(RGB - 1) :
                <<p - 1, b>>
                    \notin Visited(origin.pixels, origin.i_lsb, origin.k)
          /\ last.src[p][1] % 2 = 1

-----------------------------------------------------------------------------
(* C30: embedding twice                                                    *)

\* An encode has embedded, into a picture that an encode had written, the
\* framed message of that encode with its allocation and pixel order
AgainCase ==
    /\ EmbedCase
    /\ origin.embedded
    /\ last.src = Picture.imagedata
    /\ last.message = origin.message
    /\ last.i_lsb = origin.i_lsb
    /\ last.pixels = origin.pixels

\* C30: embedding is idempotent: embedding the same framed message with the
\* same allocation and pixel order into the picture the first embedding
\* produced leaves every value of every band as it is.
C30_Idempotent ==
    AgainCase =>
        /\ last.image = last.src
        /\ last.k = origin.k
        /\ last.i = origin.i

\* A second embedding has left unchanged a picture that the first one had
\* changed, in a shuffled order and with a short last chunk
C30_Witness ==
    /\ AgainCase
    /\ last.dialog = "encoded"
    /\ last.image = last.src
    /\ origin.src # last.src
    /\ last.pixels # Range(Len(last.pixels))
    /\ last.i > Len(ToBits(last.message \o DELIMITER))

====
